---- MODULE Spec2Model ----
(***************************************************************************)
(* Model of the oxn experiment engine: main() (oxn/main.py) driving        *)
(* Engine.run (oxn/engine.py), the ExperimentRunner phases                 *)
(* (oxn/runner.py), DockerComposeOrchestrator.ready / orchestrate /        *)
(* teardown (oxn/orchestration.py), the treatments' inject / clean /       *)
(* preconditions (oxn/treatments.py), Observer.observe (oxn/observer.py)   *)
(* and the load generator driver (oxn/loadgen.py).                         *)
(*                                                                         *)
(* The controller is one sequential process; `pc` is its position.  The    *)
(* environment (docker daemon, backends, the user's ctrl-c) is the         *)
(* nondeterminism of the actions.                                          *)
(***************************************************************************)
EXTENDS Integers, Sequences, FiniteSets, TLC

\* ---- bounds of the model ------------------------------------------------
MaxTreatments == 2      \* entries of the spec's treatments section
MaxResponses == 2       \* entries of the spec's responses section
MaxKeyLen == 2          \* characters of a string given to the trie on its own
MaxInserts == 3         \* calls of Trie.insert on the trie on its own

\* ---- program constants ----------------------------------------------------
\* default of --times: the number of iterations of Engine.run
DefaultTimes == 1

\* ---- sample inputs ---------------------------------------------------------
\* services of the compose file, in the order ready() visits them
Services == {1, 2}

\* values of --timeout, in seconds
Timeouts == {0, 1}

\* seconds a sleep (a treatment's duration, a window) takes
SleepTimes == {0, 1}

\* ---- values ---------------------------------------------------------------
\* Python's None for a timestamp that has not been recorded
None == 0 - 1


\* Representative treatment kinds of the registry (runner.treatment_keys):
\*   "pause"    PauseTreatment               runtime, docker errors caught
\*   "tail"     TailSamplingTreatment        runtime, nothing caught
\*   "sampling" PrometheusIntervalTreatment  compile time, nothing caught
Kinds == {"pause", "tail", "sampling"}

\* Treatment.is_runtime of the three kinds
is_runtime(kind) == kind \in {"pause", "tail"}

\* inject() lets an exception escape: TailSampling's containers.get("otel-col")
\* and PrometheusInterval's requests.post are outside any try block, while
\* PauseTreatment.inject catches ContainerNotFound and DockerAPIError.
inject_can_raise(kind) == kind \in {"tail", "sampling"}

\* clean() lets an exception escape: PrometheusInterval's requests.post;
\* PauseTreatment.clean catches, TailSampling.clean only rewrites the file.
clean_can_raise(kind) == kind = "sampling"

\* preconditions() can return False: PauseTreatment probes the container,
\* the other two kinds return True unconditionally.
preconditions_can_fail(kind) == kind = "pause"

\* exception classes main() has an except clause for
Handled == {"OrchestrationException", "PrometheusException",
            "JaegerException", "OxnException", "KeyboardInterrupt"}

VARIABLES
    pc,                 \* position of the controller in main() / Engine.run
    ret,                \* call site of the helper being executed
    exc,                \* exception propagating out of Engine.run, or "none"
    exit_code,          \* process exit status once pc = "exited", else None
    spec,               \* the loaded experiment specification
    runs,               \* args.times
    orchestration_timeout, \* args.timeout
    idx,                \* loop variable of Engine.run
    treatments,         \* runner.treatments of the current iteration
    i,                  \* loop position inside the current helper
    sue_service_names,  \* orchestrator.sue_service_names
    status,             \* docker: state of each service's container
    container,          \* ready(): the local `container`
    elapsed,            \* ready(): the local `elapsed`
    all_ready,          \* ready(): the local `all_ready`
    sue_running,        \* engine.sue_running
    loadgen_running,    \* engine.loadgen_running
    generator,          \* state of the locust runner greenlet
    now,                \* wall clock (utc_timestamp), seconds
    experiment_start,   \* runner.experiment_start
    experiment_end,     \* runner.experiment_end
    data,               \* observer variables: response -> state of .data
    stored,             \* responses of this iteration written to the store
    log                 \* history: calls made during the current iteration

engine_vars == <<pc, ret, exc, exit_code, spec, runs, orchestration_timeout,
                 idx, treatments, i, sue_service_names, status, container,
                 elapsed, all_ready, sue_running, loadgen_running, generator,
                 now, experiment_start, experiment_end, data, stored, log>>

\* state of the components that are also exercised on their own, outside a
\* run of the engine: labeling of a response variable's data
VARIABLES
    frames,             \* response variable -> its dataframe (.data)
    labeled_with,       \* the treatments to label with: name, start, end
    label_step          \* position of runner._label in its nested loop

label_vars == <<frames, labeled_with, label_step>>

\* the timed part of a run: the durations the spec asks for, the observer's
\* response variables and the load generator's self-quit timer
VARIABLES
    schedule,           \* loadgen.run_time, the responses' windows, the
                        \* time the runtime treatments take
    variables,          \* observer._response_variables: start, end, and
                        \* the time observe() fetched the data
    quit_at             \* when the timer of LoadGenerator.start fires

timing_vars == <<schedule, variables, quit_at>>

\* the store: the trie of the keys and the file of the dataframes
VARIABLES
    root,               \* Trie.root: node path -> Node (the trie's file)
    keys,               \* Trie.keys of the trie used on its own
    queried,            \* the last Trie.query, if any: <<[item, result]>>
    inserted,           \* the entries handed to Trie.insert, in call order
    hdf,                \* the HDFStore: key -> dataframe
    last_written,       \* key of the latest write_dataframe
    got                 \* the last call, if it was get_dataframe:
                        \* <<[key, outcome, value]>>

store_vars == <<root, keys, queried, inserted, hdf, last_written, got>>

\* The component that is examined on its own besides the engine, the
\* labeling, the timing and the store: the runner that builds its treatment
\* map, the reporter, or a treatment that rewrites a file.  One variable holds
\* the fields of that component as a record; the names below read them.
VARIABLE component

\* -- building the runner's treatment map from the spec
\* the spec held by the engine and the runner: whether it has a treatments
\* section, and the section
runner_config == component.runner_config

\* the spec as it was loaded from the file
loaded == component.loaded

random_treatment_order == component.random_treatment_order

\* runner.treatments, in insertion order
runner_treatments == component.runner_treatments

\* what the constructors called so far did
constructed == component.constructed

\* position of _build_treatments in the section
position == component.position

\* position of the engine around the build
build_pc == component.build_pc

\* the exception that left ExperimentRunner(...)
build_exc == component.build_exc

\* idx of Engine.run
run_index == component.run_index

\* -- the report of the interactions, written by Engine.run when it has a
\* report path
\* runs of Engine.run(runs=...)
times == component.times

\* keys of runner.treatments, the same in every run
treatment_names == component.treatment_names

\* per run, the frames of that run's responses
observer_variables == component.observer_variables

\* runner.short_id of the current run, 0 before one
short_id == component.short_id

\* Reporter.interactions
reporter_interactions == component.reporter_interactions

\* Reporter.report_data["report"]["runs"]
report_data == component.report_data

\* the file at report_path
report_file == component.report_file

\* position of Engine.run and main
report_pc == component.report_pc

\* position of the loop over the responses
response_index == component.response_index

\* position of the loop over the treatments
treatment_index == component.treatment_index

\* engine.sue_running
report_sue_running == component.report_sue_running

\* per run, the calls of orchestrator.teardown()
teardowns == component.teardowns

\* the exception that left Engine.run
report_exc == component.report_exc

\* -- a compile-time treatment that rewrites a configuration file
\* the contents of the file the treatment names
target_file == component.target_file

\* the contents the file had when inject was called
before_inject == component.before_inject

\* self.config of the treatment, after construction
treatment_config == component.treatment_config

\* what was called on the treatment so far
file_pc == component.file_pc

\* -- the duration parser of utils.py
\* the string handed to validate_time_string and time_string_to_seconds
time_string == component.time_string

\* what validate_time_string returned, once it was called
validated == component.validated

\* what time_string_to_seconds returned, once it was called
seconds_returned == component.seconds_returned

\* -- the observer of observer.py
\* Observer.config["experiment"]["responses"]
observer_responses == component.responses

\* Observer.experiment_start and Observer.experiment_end, in microseconds
observer_experiment_start == component.experiment_start

observer_experiment_end == component.experiment_end

\* Observer._response_variables, in the order of the dict
_response_variables == component.response_variables

\* what the last call of time_to_wait_left / time_to_wait_right gave
ttw_left == component.ttw_left

ttw_right == component.ttw_right

\* -- the load shape of loadgen.py
\* CustomLoadTestShape.stages
stages == component.stages

\* the run time of the last tick and what the tick returned
ticked == component.ticked

\* -- the queries of store.py over the keys written
\* the root of the trie and the frames of the HDF store, by key
catalog_root == component.root

catalog_hdf == component.hdf

\* the last query of the store and what it returned
asked == component.asked

\* -- the test of one treatment and one response of report.py
\* the response handed to gather_interaction, the treatment's name, and the
\* two samples handed to ttest_ind, first and second, once it was called
tested_response == component.response

tested_treatment == component.treatment

ttest_ind == component.ttest_ind

\* -- the runtime treatments of one run, with their timestamps
\* utc_timestamp(), in microseconds
clock == component.clock

\* runner._get_runtime_treatments(), each with its start and end
runtime_treatments == component.runtime_treatments

\* where the run is, and the treatment the loop is at
interval_pc == component.interval_pc

interval_index == component.interval_index

\* -- the loop of Engine.run over the runs
\* the statement Engine.run is at, the calls made so far, and Engine.runner
loop_pc == component.loop_pc

calls == component.calls

engine_runner == component.runner

\* the components added after the store
later_vars == <<component>>

\* what a step of the component leaves alone
not_component_vars == <<engine_vars, label_vars, timing_vars, store_vars>>

other_vars == <<label_vars, timing_vars, store_vars, later_vars>>

vars == <<engine_vars, other_vars>>

\* ---- helpers ---------------------------------------------------------------
Ev(name, arg) == <<name, arg>>

Logged(name, arg) ==
    LET event == Ev(name, arg)
    IN  \E k \in 1..Len(log) : log[k] = event

\* position of the first occurrence of an event in the log (0 if absent)
Pos(name, arg) ==
    LET event == Ev(name, arg)
    IN  IF \E k \in 1..Len(log) : log[k] = event
        THEN CHOOSE k \in 1..Len(log) :
                /\ log[k] = event
                /\ \A j \in 1..(k - 1) : log[j] # event
        ELSE 0

\* runner._get_runtime_treatments / _get_compile_time_treatments, as the
\* positions of the treatment map in insertion order
_get_runtime_treatments ==
    {t \in 1..Len(treatments) : is_runtime(treatments[t].kind)}

\* faulty variant of _get_compile_time_treatments: the filter without its `not`
_get_compile_time_treatments_not_dropped ==
    {t \in 1..Len(treatments) : is_runtime(treatments[t].kind)}

_get_compile_time_treatments ==
    {t \in 1..Len(treatments) : ~is_runtime(treatments[t].kind)}

\* first element of S at or after position k, or 0 when the loop is over
NextIn(S, k) ==
    IF \E t \in S : t >= k THEN CHOOSE t \in S : t >= k /\ \A u \in S : u >= k => t <= u
    ELSE 0

\* faulty variant of _build_sue_service_names: with both lists given, the
\* exclude list is not applied
_build_sue_service_names_include_wins(names, include, exclude) ==
    IF include # {} THEN names \cap include
    ELSE IF exclude # {} THEN names \ exclude
    ELSE names

\* orchestrator._build_sue_service_names
_build_sue_service_names(names, include, exclude) ==
    IF include # {} /\ exclude # {} THEN (names \cap include) \ exclude
    ELSE IF exclude # {} THEN names \ exclude
    ELSE IF include # {} THEN names \cap include
    ELSE names

\* all(all_ready)
all(bools) == \A k \in 1..Len(bools) : bools[k]

\* a fresh treatment object built by runner._build_treatment
NewTreatment(kind) ==
    [kind |-> kind, start |-> None, end |-> None, injects |-> 0, cleans |-> 0]

\* an exception leaves Engine.run (main.py 36-52): a handled class is logged
\* by its except clause, any other class stays pending; either way control
\* reaches the finally block
Propagate(e) ==
    /\ exc' = e
    /\ pc' = "finally"

\* ---- components exercised on their own ------------------------------------
\* no labeling in progress
LabelIdle ==
    /\ frames = <<>>
    /\ labeled_with = <<>>
    /\ label_step = 0

\* no timed run in progress
TimingIdle ==
    /\ schedule = <<>>
    /\ variables = <<>>
    /\ quit_at = None

\* no store file, no trie file
StoreIdle ==
    /\ root = [path \in {<<>>} |->
                 [character |-> <<>>, end |-> FALSE, children |-> <<>>]]
    /\ keys = <<>>
    /\ queried = <<>>
    /\ inserted = <<>>
    /\ hdf = <<>>
    /\ last_written = <<>>
    /\ got = <<>>

\* no runner is being built, no report gathered, no file treatment constructed
ComponentIdle == component = [kind |-> "none"]

LaterIdle == ComponentIdle

OthersIdle == LabelIdle /\ TimingIdle /\ StoreIdle /\ LaterIdle

\* ---- initial state ---------------------------------------------------------
\* what a spec file can hold: an ordered treatments section, the sue section's
\* include / exclude lists (names of the compose file) and the responses
Specs ==
    [treatments : UNION {[1..n -> Kinds] : n \in 0..MaxTreatments},
     include    : SUBSET Services,
     exclude    : SUBSET Services,
     responses  : 1..MaxResponses]

\* main() after Engine.__init__ (engine.py 25-47): nothing orchestrated, no
\* load generator, both status flags False
Init ==
    /\ pc = "read_spec"
    /\ ret = "none"
    /\ exc = "none"
    /\ exit_code = None
    /\ spec \in Specs
    /\ runs = DefaultTimes
    /\ orchestration_timeout \in Timeouts
    /\ idx = 0
    /\ treatments = <<>>
    /\ i = 0
    /\ sue_service_names = {}
    /\ status = [s \in Services |-> "absent"]
    /\ container = "unset"
    /\ elapsed = 0
    /\ all_ready = <<>>
    /\ sue_running = FALSE
    /\ loadgen_running = FALSE
    /\ generator = "none"
    /\ now = 0
    /\ experiment_start = None
    /\ experiment_end = None
    /\ data = <<>>
    /\ stored = {}
    /\ log = <<>>
    /\ OthersIdle

\* ---- main(): loading the spec ----------------------------------------------
\* main.py 25-29: read_experiment_specification; on OxnException sys.exit(1)
ReadSpec ==
    /\ pc = "read_spec"
    /\ \E ok \in BOOLEAN :
        IF ok THEN pc' = "validate_syntax" /\ exit_code' = exit_code
        ELSE pc' = "exited" /\ exit_code' = 1
    /\ UNCHANGED <<ret, exc, spec, runs, orchestration_timeout, idx,
                   treatments, i, sue_service_names, status, container,
                   elapsed, all_ready, sue_running, loadgen_running,
                   generator, now, experiment_start, experiment_end, data,
                   stored, log>>
    /\ UNCHANGED other_vars

\* main.py 31-35: validate_syntax; on OxnException sys.exit(1)
ValidateSyntax ==
    /\ pc = "validate_syntax"
    /\ \E ok \in BOOLEAN :
        IF ok THEN pc' = "run_loop" /\ exit_code' = exit_code
        ELSE pc' = "exited" /\ exit_code' = 1
    /\ UNCHANGED <<ret, exc, spec, runs, orchestration_timeout, idx,
                   treatments, i, sue_service_names, status, container,
                   elapsed, all_ready, sue_running, loadgen_running,
                   generator, now, experiment_start, experiment_end, data,
                   stored, log>>
    /\ UNCHANGED other_vars

\* ---- Engine.run -------------------------------------------------------------
\* engine.py 80: for idx in range(runs); 167-169 after the loop
RunLoop ==
    /\ pc = "run_loop"
    /\ IF idx < runs
       THEN /\ pc' = "new_orchestrator"
            /\ log' = <<>>
       ELSE /\ pc' = "finally"
            /\ log' = log
    /\ UNCHANGED <<ret, exc, exit_code, spec, runs, orchestration_timeout,
                   idx, treatments, i, sue_service_names, status, container,
                   elapsed, all_ready, sue_running, loadgen_running,
                   generator, now, experiment_start, experiment_end, data,
                   stored>>
    /\ UNCHANGED other_vars

\* engine.py 82-84 and orchestration.py 28-47: the constructor validates the
\* sue section (OrchestrationException) and derives the effective services
NewOrchestrator ==
    /\ pc = "new_orchestrator"
    /\ \E ok \in BOOLEAN :
        IF ok
        THEN /\ sue_service_names' =
                    _build_sue_service_names(Services, spec.include, spec.exclude)
             /\ pc' = "new_runner"
             /\ exc' = exc
        ELSE /\ sue_service_names' = sue_service_names
             /\ Propagate("OrchestrationException")
    /\ UNCHANGED <<ret, exit_code, spec, runs, orchestration_timeout, idx,
                   treatments, i, status, container, elapsed, all_ready,
                   sue_running, loadgen_running, generator, now,
                   experiment_start, experiment_end, data, stored, log>>
    /\ UNCHANGED other_vars

\* engine.py 85-99: LoadGenerator(config) and ExperimentRunner(...), whose
\* constructor builds the treatment map (runner.py 134-146) and a new Observer;
\* a treatment that does not validate raises OxnException (treatment.py 30-34)
NewRunner ==
    /\ pc = "new_runner"
    /\ \E ok \in BOOLEAN :
        IF ok
        THEN /\ treatments' = [t \in 1..Len(spec.treatments) |->
                                    NewTreatment(spec.treatments[t])]
             /\ generator' = "created"
             /\ experiment_start' = None
             /\ experiment_end' = None
             /\ data' = <<>>
             /\ stored' = {}
             /\ i' = 1
             /\ pc' = "execute_compile_time_treatments"
             /\ exc' = exc
        ELSE /\ UNCHANGED <<treatments, generator, experiment_start,
                            experiment_end, data, stored, i>>
             /\ Propagate("OxnException")
    /\ UNCHANGED <<ret, exit_code, spec, runs, orchestration_timeout, idx,
                   sue_service_names, status, container, elapsed, all_ready,
                   sue_running, loadgen_running, now, log>>
    /\ UNCHANGED other_vars

\* engine.py 100 and runner.py 178-183: one iteration of the loop over the
\* compile time treatments: record start, inject
execute_compile_time_treatments ==
    /\ pc = "execute_compile_time_treatments"
    /\ LET t == NextIn(_get_compile_time_treatments, i) IN
        IF t = 0
        THEN /\ pc' = "orchestrate"
             /\ UNCHANGED <<treatments, i, exc, log>>
        ELSE /\ treatments' = [treatments EXCEPT ![t].start = now,
                                                 ![t].injects = @ + 1]
             /\ i' = t + 1
             /\ \E raises \in {FALSE, inject_can_raise(treatments[t].kind)} :
                 IF raises
                 THEN /\ log' = log \o <<Ev("start", t), Ev("inject", t)>>
                      /\ Propagate("Other")
                 ELSE /\ log' = log \o <<Ev("start", t), Ev("inject", t),
                                         Ev("injected", t)>>
                      /\ pc' = "execute_compile_time_treatments"
                      /\ exc' = exc
    /\ UNCHANGED <<ret, exit_code, spec, runs, orchestration_timeout, idx,
                   sue_service_names, status, container, elapsed, all_ready,
                   sue_running, loadgen_running, generator, now,
                   experiment_start, experiment_end, data, stored>>
    /\ UNCHANGED other_vars

\* engine.py 101 and orchestration.py 185-188: compose up, detached, of the
\* effective services; the containers are created and start on their own
orchestrate ==
    /\ pc = "orchestrate"
    /\ \E ok \in BOOLEAN :
        IF ok
        THEN /\ status' = [s \in Services |->
                            IF s \in sue_service_names /\ status[s] = "absent"
                            THEN "created" ELSE status[s]]
             /\ log' = log \o <<Ev("orchestrate", 0), Ev("orchestrated", 0)>>
             /\ all_ready' = <<>>
             /\ i' = 1
             /\ pc' = "ready_get"
             /\ exc' = exc
        ELSE /\ log' = Append(log, Ev("orchestrate", 0))
             /\ UNCHANGED <<status, all_ready, i>>
             /\ Propagate("Other")
    /\ UNCHANGED <<ret, exit_code, spec, runs, orchestration_timeout, idx,
                   treatments, sue_service_names, container, elapsed,
                   sue_running, loadgen_running, generator, now,
                   experiment_start, experiment_end, data, stored>>
    /\ UNCHANGED other_vars

\* ---- DockerComposeOrchestrator.ready ----------------------------------------
\* what docker can report for a container that exists: it may have started
\* since it was last looked at
Observable(st) == IF st = "absent" THEN {"absent"} ELSE {st, "running"}

\* What `container = container.reload()` (orchestration.py 207) leaves in the
\* local: docker-py's Model.reload() refreshes the object in place and returns
\* None; a client whose reload() returned the refreshed object would leave
\* the object.  Both are kept.
ReloadResults == {"None", "object"}

\* orchestration.py 194-202: expected_services defaults to ALL the service
\* names of the compose file (docker_service_names), not the effective set;
\* containers.get raises NotFound for a container that does not exist, which
\* ready turns into OrchestrationException (210-211)
ready_get ==
    /\ pc = "ready_get"
    /\ IF i > Cardinality(Services)
       THEN /\ pc' = "ready_return"
            /\ UNCHANGED <<exc, status, container, elapsed>>
       ELSE IF status[i] = "absent"
       THEN /\ Propagate("OrchestrationException")
            /\ UNCHANGED <<status, container, elapsed>>
       ELSE /\ \E st \in Observable(status[i]) :
                status' = [status EXCEPT ![i] = st]
            /\ container' = "object"
            /\ elapsed' = 0
            /\ pc' = "ready_while"
            /\ exc' = exc
    /\ UNCHANGED <<ret, exit_code, spec, runs, orchestration_timeout, idx,
                   treatments, i, sue_service_names, all_ready, sue_running,
                   loadgen_running, generator, now, experiment_start,
                   experiment_end, data, stored, log>>
    /\ UNCHANGED other_vars

\* orchestration.py 204-209: the polling loop of one service and, when it is
\* left (running, or timeout used up), all_ready.append(True)
ready_while ==
    /\ pc = "ready_while"
    /\ IF container = "None"
       THEN \* None.status: AttributeError, not caught by `except NotFound`
            /\ Propagate("Other")
            /\ UNCHANGED <<status, container, elapsed, all_ready, i, now, log>>
       ELSE IF status[i] # "running" /\ elapsed < orchestration_timeout
       THEN /\ now' = now + 1
            /\ elapsed' = elapsed + 1
            /\ \E r \in ReloadResults : container' = r
            /\ \E st \in Observable(status[i]) :
                status' = [status EXCEPT ![i] = st]
            /\ UNCHANGED <<pc, exc, all_ready, i, log>>
       ELSE /\ all_ready' = Append(all_ready, TRUE)
            /\ i' = i + 1
            /\ pc' = "ready_get"
            /\ log' = IF status[i] # "running"
                      THEN Append(log, Ev("ready_timeout", i)) ELSE log
            /\ UNCHANGED <<exc, status, container, elapsed, now>>
    /\ UNCHANGED <<ret, exit_code, spec, runs, orchestration_timeout, idx,
                   treatments, sue_service_names, sue_running,
                   loadgen_running, generator, experiment_start,
                   experiment_end, data, stored>>
    /\ UNCHANGED other_vars

\* orchestration.py 214 `return all(all_ready)` and engine.py 102, the test
\* of the result: not ready -> clean, teardown, raise (103-108)
ready_return ==
    /\ pc = "ready_return"
    /\ log' = Append(log, Ev("ready", IF all(all_ready) THEN 1 ELSE 0))
    /\ IF ~all(all_ready)
       THEN /\ pc' = "clean_compile_time_treatments"
            /\ ret' = "not_ready"
            /\ i' = 1
       ELSE /\ pc' = "sue_running"
            /\ ret' = ret
            /\ i' = i
    /\ container' = "unset"
    /\ elapsed' = 0
    /\ all_ready' = <<>>
    /\ UNCHANGED <<exc, exit_code, spec, runs, orchestration_timeout, idx,
                   treatments, sue_service_names, status, sue_running,
                   loadgen_running, generator, now, experiment_start,
                   experiment_end, data, stored>>
    /\ UNCHANGED other_vars

\* runner.py 185-189, called at engine.py 103 (not ready) and 124 (after the
\* runtime treatments): one iteration of the loop: record end, clean
clean_compile_time_treatments ==
    /\ pc = "clean_compile_time_treatments"
    /\ LET t == NextIn(_get_compile_time_treatments, i) IN
        IF t = 0
        THEN /\ pc' = IF ret = "not_ready" THEN "teardown" ELSE "experiment_end"
             /\ UNCHANGED <<treatments, i, exc, log>>
        ELSE /\ treatments' = [treatments EXCEPT ![t].end = now,
                                                 ![t].cleans = @ + 1]
             /\ i' = t + 1
             /\ \E raises \in {FALSE, clean_can_raise(treatments[t].kind)} :
                 IF raises
                 THEN /\ log' = log \o <<Ev("end", t), Ev("clean", t)>>
                      /\ Propagate("Other")
                 ELSE /\ log' = log \o <<Ev("end", t), Ev("clean", t),
                                         Ev("cleaned", t)>>
                      /\ UNCHANGED <<pc, exc>>
    /\ UNCHANGED <<ret, exit_code, spec, runs, orchestration_timeout, idx,
                   sue_service_names, status, container, elapsed, all_ready,
                   sue_running, loadgen_running, generator, now,
                   experiment_start, experiment_end, data, stored>>
    /\ UNCHANGED other_vars

\* orchestration.py 216-221: compose down of everything, remove orphans
compose_down == [s \in Services |-> "absent"]

\* orchestrator.teardown() as called inside Engine.run: at engine.py 104 (not
\* ready; followed by the raise of 105-108) and at engine.py 163-165 (end of
\* an iteration; followed by sue_running = False and the next iteration)
teardown ==
    /\ pc = "teardown"
    /\ status' = compose_down
    /\ log' = Append(log, Ev("teardown", 0))
    /\ IF ret = "not_ready"
       THEN /\ Propagate("OrchestrationException")
            /\ UNCHANGED <<sue_running, idx>>
       ELSE /\ sue_running' = FALSE
            /\ idx' = idx + 1
            /\ pc' = "run_loop"
            /\ exc' = exc
    /\ UNCHANGED <<ret, exit_code, spec, runs, orchestration_timeout,
                   treatments, i, sue_service_names, container, elapsed,
                   all_ready, loadgen_running, generator, now,
                   experiment_start, experiment_end, data, stored>>
    /\ UNCHANGED other_vars

\* engine.py 109-110: self.sue_running = True
set_sue_running ==
    /\ pc = "sue_running"
    /\ sue_running' = TRUE
    /\ i' = 1
    /\ pc' = "preconditions"
    /\ UNCHANGED <<ret, exc, exit_code, spec, runs, orchestration_timeout,
                   idx, treatments, sue_service_names, status, container,
                   elapsed, all_ready, loadgen_running, generator, now,
                   experiment_start, experiment_end, data, stored, log>>
    /\ UNCHANGED other_vars

\* faulty variant of preconditions: the result of preconditions() is not
\* acted on
preconditions_unchecked ==
    /\ pc = "preconditions"
    /\ IF i > Len(treatments)
       THEN /\ pc' = "generator_start"
            /\ UNCHANGED <<i, log>>
       ELSE /\ \E fails \in {FALSE, preconditions_can_fail(treatments[i].kind)} :
                log' = Append(log, Ev("preconditions", IF fails THEN 0 ELSE 1))
            /\ i' = i + 1
            /\ pc' = pc
    /\ UNCHANGED <<ret, exc, exit_code, spec, runs, orchestration_timeout,
                   idx, treatments, sue_service_names, status, container,
                   elapsed, all_ready, sue_running, loadgen_running,
                   generator, now, experiment_start, experiment_end, data,
                   stored>>
    /\ UNCHANGED other_vars

\* engine.py 111-116: one iteration of the loop over ALL treatments of the
\* map; a treatment whose preconditions() is False raises OxnException
preconditions ==
    /\ pc = "preconditions"
    /\ IF i > Len(treatments)
       THEN /\ pc' = "generator_start"
            /\ UNCHANGED <<exc, i, log>>
       ELSE \E fails \in {FALSE, preconditions_can_fail(treatments[i].kind)} :
            IF fails
            THEN /\ log' = Append(log, Ev("preconditions", 0))
                 /\ Propagate("OxnException")
                 /\ i' = i
            ELSE /\ log' = Append(log, Ev("preconditions", 1))
                 /\ i' = i + 1
                 /\ UNCHANGED <<pc, exc>>
    /\ UNCHANGED <<ret, exit_code, spec, runs, orchestration_timeout, idx,
                   treatments, sue_service_names, status, container, elapsed,
                   all_ready, sue_running, loadgen_running, generator, now,
                   experiment_start, experiment_end, data, stored>>
    /\ UNCHANGED other_vars

\* engine.py 117 and loadgen.py 110-117: create the local runner and start it
\* (locust may fail to start: an exception main() has no clause for)
generator_start ==
    /\ pc = "generator_start"
    /\ log' = Append(log, Ev("generator.start", 0))
    /\ \E ok \in BOOLEAN :
        IF ok
        THEN /\ generator' = "running"
             /\ pc' = "loadgen_running"
             /\ exc' = exc
        ELSE /\ generator' = generator
             /\ Propagate("Other")
    /\ UNCHANGED <<ret, exit_code, spec, runs, orchestration_timeout, idx,
                   treatments, i, sue_service_names, status, container,
                   elapsed, all_ready, sue_running, loadgen_running, now,
                   experiment_start, experiment_end, data, stored>>
    /\ UNCHANGED other_vars

\* engine.py 118-122: loadgen_running = True; experiment_start = utc_timestamp()
set_loadgen_running ==
    /\ pc = "loadgen_running"
    /\ loadgen_running' = TRUE
    /\ experiment_start' = now
    /\ log' = Append(log, Ev("experiment_start", 0))
    /\ pc' = "execute_runtime_treatments"
    /\ UNCHANGED <<ret, exc, exit_code, spec, runs, orchestration_timeout,
                   idx, treatments, i, sue_service_names, status, container,
                   elapsed, all_ready, sue_running, generator, now,
                   experiment_end, data, stored>>
    /\ UNCHANGED other_vars

\* ---- ExperimentRunner.execute_runtime_treatments ---------------------------
\* how inject() of a runtime treatment can end: "ok"; "logged" when the kind
\* catches the docker error itself and returns (PauseTreatment.inject,
\* treatments.py 624-630); "raise" when the error escapes
InjectOutcomes(kind) ==
    {"ok"} \cup (IF inject_can_raise(kind) THEN {"raise"} ELSE {"logged"})

\* runner.py 196-202: (accounting off) sleep for the largest left window
sleep_left_window ==
    /\ pc = "execute_runtime_treatments"
    /\ \E d \in SleepTimes : now' = now + d
    /\ i' = 1
    /\ pc' = "runtime_inject"
    /\ UNCHANGED <<ret, exc, exit_code, spec, runs, orchestration_timeout,
                   idx, treatments, sue_service_names, status, container,
                   elapsed, all_ready, sue_running, loadgen_running,
                   generator, experiment_start, experiment_end, data, stored,
                   log>>
    /\ UNCHANGED other_vars

\* runner.py 203-205: next runtime treatment: record start, inject (which
\* sleeps for the treatment's duration); after the last one, engine.py 124
runtime_inject ==
    /\ pc = "runtime_inject"
    /\ LET t == NextIn(_get_runtime_treatments, i) IN
        IF t = 0
        THEN /\ pc' = "clean_compile_time_treatments"
             /\ ret' = "normal"
             /\ i' = 1
             /\ UNCHANGED <<treatments, exc, now, log>>
        ELSE /\ treatments' = [treatments EXCEPT ![t].start = now,
                                                 ![t].injects = @ + 1]
             /\ i' = t
             /\ ret' = ret
             /\ \E out \in InjectOutcomes(treatments[t].kind) :
                 IF out = "raise"
                 THEN /\ log' = log \o <<Ev("start", t), Ev("inject", t)>>
                      /\ now' = now
                      /\ Propagate("Other")
                 ELSE /\ log' = log \o
                            (IF out = "logged"
                             THEN <<Ev("start", t), Ev("inject", t),
                                    Ev("inject_failed", t), Ev("injected", t)>>
                             ELSE <<Ev("start", t), Ev("inject", t),
                                    Ev("injected", t)>>)
                      /\ \E d \in SleepTimes : now' = now + d
                      /\ pc' = "runtime_clean"
                      /\ exc' = exc
    /\ UNCHANGED <<exit_code, spec, runs, orchestration_timeout, idx,
                   sue_service_names, status, container, elapsed, all_ready,
                   sue_running, loadgen_running, generator, experiment_start,
                   experiment_end, data, stored>>
    /\ UNCHANGED other_vars

\* faulty variant of runtime_clean: the clean of a runtime treatment deferred
\* (not called in the loop), only its end recorded
runtime_clean_deferred ==
    /\ pc = "runtime_clean"
    /\ treatments' = [treatments EXCEPT ![i].end = now]
    /\ log' = Append(log, Ev("end", i))
    /\ i' = i + 1
    /\ pc' = "runtime_inject"
    /\ UNCHANGED <<ret, exc, exit_code, spec, runs, orchestration_timeout,
                   idx, sue_service_names, status, container, elapsed,
                   all_ready, sue_running, loadgen_running, generator, now,
                   experiment_start, experiment_end, data, stored>>
    /\ UNCHANGED other_vars

\* runner.py 206-207: clean the treatment just injected, record its end
runtime_clean ==
    /\ pc = "runtime_clean"
    /\ \E raises \in {FALSE, clean_can_raise(treatments[i].kind)} :
        IF raises
        THEN /\ treatments' = [treatments EXCEPT ![i].cleans = @ + 1]
             /\ log' = Append(log, Ev("clean", i))
             /\ i' = i
             /\ Propagate("Other")
        ELSE /\ treatments' = [treatments EXCEPT ![i].cleans = @ + 1,
                                                 ![i].end = now]
             /\ log' = log \o <<Ev("clean", i), Ev("cleaned", i), Ev("end", i)>>
             /\ i' = i + 1
             /\ pc' = "runtime_inject"
             /\ exc' = exc
    /\ UNCHANGED <<ret, exit_code, spec, runs, orchestration_timeout, idx,
                   sue_service_names, status, container, elapsed, all_ready,
                   sue_running, loadgen_running, generator, now,
                   experiment_start, experiment_end, data, stored>>
    /\ UNCHANGED other_vars

\* engine.py 125-126: experiment_end = utc_timestamp()
set_experiment_end ==
    /\ pc = "experiment_end"
    /\ experiment_end' = now
    /\ log' = Append(log, Ev("experiment_end", 0))
    /\ pc' = "observe_response_variables"
    /\ UNCHANGED <<ret, exc, exit_code, spec, runs, orchestration_timeout,
                   idx, treatments, i, sue_service_names, status, container,
                   elapsed, all_ready, sue_running, loadgen_running,
                   generator, now, experiment_start, data, stored>>
    /\ UNCHANGED other_vars

\* ---- observation -------------------------------------------------------------
\* runner.py 210-215: initialize the variables (data = None, response.py 25),
\* sleep for the largest right window
observe_response_variables ==
    /\ pc = "observe_response_variables"
    /\ data' = [r \in 1..spec.responses |-> "None"]
    /\ \E d \in SleepTimes : now' = now + d
    /\ i' = 1
    /\ pc' = "observe"
    /\ UNCHANGED <<ret, exc, exit_code, spec, runs, orchestration_timeout,
                   idx, treatments, sue_service_names, status, container,
                   elapsed, all_ready, sue_running, loadgen_running,
                   generator, experiment_start, experiment_end, stored, log>>
    /\ UNCHANGED other_vars

\* faulty variant of observe: the loop is left after the first variable
observe_first_only ==
    /\ pc = "observe"
    /\ IF i > 1
       THEN /\ pc' = "label"
            /\ UNCHANGED <<data, i, log>>
       ELSE /\ data' = [data EXCEPT ![i] = "frame"]
            /\ log' = Append(log, Ev("observe", i))
            /\ i' = i + 1
            /\ pc' = pc
    /\ UNCHANGED <<ret, exc, exit_code, spec, runs, orchestration_timeout,
                   idx, treatments, sue_service_names, status, container,
                   elapsed, all_ready, sue_running, loadgen_running,
                   generator, now, experiment_start, experiment_end, stored>>
    /\ UNCHANGED other_vars

\* observer.py 114-119: one iteration of the loop: variable.observe() sets
\* .data; any exception is caught and logged, .data stays None
observe ==
    /\ pc = "observe"
    /\ IF i > Len(data)
       THEN /\ pc' = "label"
            /\ UNCHANGED <<data, i, log>>
       ELSE /\ \E ok \in BOOLEAN :
                IF ok
                THEN /\ data' = [data EXCEPT ![i] = "frame"]
                     /\ log' = Append(log, Ev("observe", i))
                ELSE /\ data' = data
                     /\ log' = log \o <<Ev("observe", i), Ev("observe_failed", i)>>
            /\ i' = i + 1
            /\ pc' = pc
    /\ UNCHANGED <<ret, exc, exit_code, spec, runs, orchestration_timeout,
                   idx, treatments, sue_service_names, status, container,
                   elapsed, all_ready, sue_running, loadgen_running,
                   generator, now, experiment_start, experiment_end, stored>>
    /\ UNCHANGED other_vars

\* the first variable whose data is None (0 when every variable has a frame)
FirstNone == NextIn({r \in 1..Len(data) : data[r] = "None"}, 1)

\* runner.py 231-240 with responses.py 90-93 / 256-259: for each treatment,
\* for each variable, variable.label(...) indexes self.data: on a variable
\* whose data is None that is a TypeError, which nothing catches
_label ==
    /\ pc = "label"
    /\ IF Len(treatments) = 0
       THEN /\ pc' = "generator_stop"
            /\ UNCHANGED <<data, exc, log>>
       ELSE IF FirstNone # 0
       THEN /\ data' = [r \in 1..Len(data) |->
                            IF r < FirstNone THEN "labeled" ELSE data[r]]
            /\ log' = Append(log, Ev("label", 0))
            /\ Propagate("Other")
       ELSE /\ data' = [r \in 1..Len(data) |-> "labeled"]
            /\ log' = log \o <<Ev("label", 0), Ev("labeled", 0)>>
            /\ pc' = "generator_stop"
            /\ exc' = exc
    /\ UNCHANGED <<ret, exit_code, spec, runs, orchestration_timeout, idx,
                   treatments, i, sue_service_names, status, container,
                   elapsed, all_ready, sue_running, loadgen_running,
                   generator, now, experiment_start, experiment_end, stored>>
    /\ UNCHANGED other_vars

\* engine.py 128-130 and loadgen.py 119-122: join the locust greenlet, then
\* loadgen_running = False
generator_stop ==
    /\ pc = "generator_stop"
    /\ generator' = "finished"
    /\ loadgen_running' = FALSE
    /\ log' = Append(log, Ev("generator.stop", 0))
    /\ i' = 1
    /\ pc' = "write_dataframe"
    /\ UNCHANGED <<ret, exc, exit_code, spec, runs, orchestration_timeout,
                   idx, treatments, sue_service_names, status, container,
                   elapsed, all_ready, sue_running, now, experiment_start,
                   experiment_end, data, stored>>
    /\ UNCHANGED other_vars

\* engine.py 131-162 and store.py 108-114: one iteration of the loop over the
\* variables: store.put of the variable's data and len(response.data) for the
\* debug message (138-140); on data that is None that is a TypeError
write_dataframe ==
    /\ pc = "write_dataframe"
    /\ IF i > Len(data)
       THEN /\ pc' = "teardown"
            /\ UNCHANGED <<exc, stored, i, log>>
       ELSE IF data[i] = "None"
       THEN /\ log' = Append(log, Ev("write_dataframe", i))
            /\ Propagate("Other")
            /\ UNCHANGED <<stored, i>>
       ELSE /\ stored' = stored \cup {i}
            /\ log' = Append(log, Ev("write_dataframe", i))
            /\ i' = i + 1
            /\ UNCHANGED <<pc, exc>>
    /\ UNCHANGED <<ret, exit_code, spec, runs, orchestration_timeout, idx,
                   treatments, sue_service_names, status, container, elapsed,
                   all_ready, sue_running, loadgen_running, generator, now,
                   experiment_start, experiment_end, data>>
    /\ UNCHANGED other_vars

\* ---- main(): interrupt and cleanup -------------------------------------------
\* positions inside the try block of main.py 36-42
InRun == {"run_loop", "new_orchestrator", "new_runner",
          "execute_compile_time_treatments", "orchestrate", "ready_get",
          "ready_while", "ready_return", "clean_compile_time_treatments",
          "sue_running", "preconditions", "generator_start",
          "loadgen_running", "execute_runtime_treatments", "runtime_inject",
          "runtime_clean", "experiment_end", "observe_response_variables",
          "observe", "label", "generator_stop", "write_dataframe",
          "teardown"}

\* main.py 51-52: ctrl-c while Engine.run executes
KeyboardInterrupt ==
    /\ pc \in InRun
    /\ Propagate("KeyboardInterrupt")
    /\ UNCHANGED <<ret, exit_code, spec, runs, orchestration_timeout, idx,
                   treatments, i, sue_service_names, status, container,
                   elapsed, all_ready, sue_running, loadgen_running,
                   generator, now, experiment_start, experiment_end, data,
                   stored, log>>
    /\ UNCHANGED other_vars

\* main.py 53-60, the finally block: generator.kill() (loadgen.py 124-127)
\* if engine.loadgen_running, orchestrator.teardown() if engine.sue_running;
\* then the process ends, with status 0 unless an exception that has no
\* except clause is pending
main_finally ==
    /\ pc = "finally"
    /\ generator' = IF loadgen_running THEN "killed" ELSE generator
    /\ status' = IF sue_running THEN compose_down ELSE status
    /\ log' = log \o (IF loadgen_running THEN <<Ev("generator.kill", 0)>> ELSE <<>>)
                  \o (IF sue_running THEN <<Ev("teardown", 0)>> ELSE <<>>)
    /\ exit_code' = IF exc = "none" \/ exc \in Handled THEN 0 ELSE 1
    /\ pc' = "exited"
    /\ UNCHANGED <<ret, exc, spec, runs, orchestration_timeout, idx,
                   treatments, i, sue_service_names, container, elapsed,
                   all_ready, sue_running, loadgen_running, now,
                   experiment_start, experiment_end, data, stored>>
    /\ UNCHANGED other_vars

Next ==
    \/ ReadSpec
    \/ ValidateSyntax
    \/ RunLoop
    \/ NewOrchestrator
    \/ NewRunner
    \/ execute_compile_time_treatments
    \/ orchestrate
    \/ ready_get
    \/ ready_while
    \/ ready_return
    \/ clean_compile_time_treatments
    \/ teardown
    \/ set_sue_running
    \/ preconditions
    \/ generator_start
    \/ set_loadgen_running
    \/ sleep_left_window
    \/ runtime_inject
    \/ runtime_clean
    \/ set_experiment_end
    \/ observe_response_variables
    \/ observe
    \/ _label
    \/ generator_stop
    \/ write_dataframe
    \/ KeyboardInterrupt
    \/ main_finally

Spec == Init /\ [][Next]_vars

\* ---- the engine at rest ------------------------------------------------------
\* no run of the engine is in progress (Engine.__init__, engine.py 25-47)
EngineIdle ==
    /\ pc = "idle"
    /\ ret = "none"
    /\ exc = "none"
    /\ exit_code = None
    /\ spec = [treatments |-> <<>>, include |-> {}, exclude |-> {},
               responses |-> 1]
    /\ runs = DefaultTimes
    /\ orchestration_timeout = 0
    /\ idx = 0
    /\ treatments = <<>>
    /\ i = 0
    /\ sue_service_names = {}
    /\ status = [s \in Services |-> "absent"]
    /\ container = "unset"
    /\ elapsed = 0
    /\ all_ready = <<>>
    /\ sue_running = FALSE
    /\ loadgen_running = FALSE
    /\ generator = "none"
    /\ now = 0
    /\ experiment_start = None
    /\ experiment_end = None
    /\ data = <<>>
    /\ stored = {}
    /\ log = <<>>

\* ---- labeling: ResponseVariable.label and ExperimentRunner._label ---------------
\* utils.to_microseconds: seconds * 10 ** 6
MicrosecondsPerSecond == 1000000

to_microseconds(seconds) == seconds * MicrosecondsPerSecond

\* sample timestamps (seconds) of the treatments' start and end
LabelTimes == {1, 2, 3}

\* sample names of treatments (the keys of the treatment map are distinct)
TreatmentNames == {"t1", "t2", "t3"}

\* an observed metric frame: one row per sample, `timestamp` in seconds
\* (responses.py 136-151)
MetricFrame ==
    [type |-> "metric",
     data |-> [c \in {"timestamp"} |-> <<0, 1, 2, 3, 4>>]]

\* an observed trace frame: one row per span, `start_time` in microseconds
\* (responses.py 286-308)
TraceFrame ==
    [type |-> "trace",
     data |-> [c \in {"start_time"} |->
                <<to_microseconds(1) - 1, to_microseconds(1),
                  to_microseconds(2), to_microseconds(3),
                  to_microseconds(3) + 1>>]]

\* df[column] = values: the column is added, or replaced when it exists
SetColumn(df, column, values) ==
    [c \in DOMAIN df \cup {column} |-> IF c = column THEN values ELSE df[c]]

\* np.where(predicate, label, "NoTreatment")
where(predicate, label) ==
    [r \in 1..Len(predicate) |-> IF predicate[r] THEN label ELSE "NoTreatment"]

\* MetricResponseVariable.label (responses.py 78-93)
metric_label(df, treatment_start, treatment_end, label_column, label) ==
    LET predicate == [r \in 1..Len(df["timestamp"]) |->
                        /\ treatment_start <= df["timestamp"][r]
                        /\ df["timestamp"][r] <= treatment_end]
    IN  SetColumn(df, label_column, where(predicate, label))

\* faulty variant of trace_label: the treatment's interval is not scaled to
\* microseconds
trace_label_unscaled(df, treatment_start, treatment_end, label_column, label) ==
    LET predicate == [r \in 1..Len(df["start_time"]) |->
                        /\ df["start_time"][r] >= treatment_start
                        /\ df["start_time"][r] <= treatment_end]
    IN  SetColumn(df, label_column, where(predicate, label))

\* TraceResponseVariable.label (responses.py 246-259)
trace_label(df, treatment_start, treatment_end, label_column, label) ==
    LET scaled_treatment_start == to_microseconds(treatment_start)
        scaled_treatment_end == to_microseconds(treatment_end)
        predicate == [r \in 1..Len(df["start_time"]) |->
                        /\ df["start_time"][r] >= scaled_treatment_start
                        /\ df["start_time"][r] <= scaled_treatment_end]
    IN  SetColumn(df, label_column, where(predicate, label))

\* the treatment maps to label with: distinct names in any order, any interval
LabelTreatments ==
    {ts \in UNION {[1..n -> [name : TreatmentNames, start : LabelTimes,
                              end : LabelTimes]] : n \in 0..MaxTreatments} :
        \A a \in 1..Len(ts) : \A b \in 1..Len(ts) :
            a # b => ts[a].name # ts[b].name}

\* runner._label is entered with every variable observed
InitLabel ==
    /\ EngineIdle
    /\ TimingIdle
    /\ StoreIdle
    /\ LaterIdle
    /\ frames = <<MetricFrame, TraceFrame>>
    /\ labeled_with \in LabelTreatments
    /\ label_step = 0

\* runner.py 233-240: one call of the nested loop, for each treatment, for
\* each response variable: response_variable.label(...)
label ==
    /\ label_step < Len(labeled_with) * Len(frames)
    /\ LET treatment == labeled_with[(label_step \div Len(frames)) + 1]
           v == (label_step % Len(frames)) + 1
       IN  frames' = [frames EXCEPT ![v].data =
                IF frames[v].type = "metric"
                THEN metric_label(@, treatment.start, treatment.end,
                                  treatment.name, treatment.name)
                ELSE trace_label(@, treatment.start, treatment.end,
                                 treatment.name, treatment.name)]
    /\ label_step' = label_step + 1
    /\ UNCHANGED <<labeled_with, engine_vars, timing_vars, store_vars, later_vars>>

NextLabel == label

LabelSpec == InitLabel /\ [][NextLabel]_vars

\* ---- the timed part of a run: engine.py 117-129 with the spec's durations ------
\* sample durations in seconds: loadgen.run_time, and the time the runtime
\* treatments take altogether
Durations == {0, 1, 2, 3}

\* sample values of left_window / right_window, in seconds
Windows == {0, 1, 2}

\* the durations a spec asks for
Schedules ==
    [run_time : Durations,
     responses : UNION {[1..n -> [left_window : Windows, right_window : Windows]]
                            : n \in 1..MaxResponses},
     treatments_time : Durations]

\* the engine variables the timed part does not touch
untimed_vars == <<ret, exc, exit_code, spec, runs, orchestration_timeout, idx,
                  treatments, i, sue_service_names, status, container, elapsed,
                  all_ready, sue_running, data, stored, log>>

Max(S) == CHOOSE x \in S : \A y \in S : y <= x

Min(S) == CHOOSE x \in S : \A y \in S : x <= y

\* Observer.time_to_wait_left (observer.py 85-96): the largest left_window
time_to_wait_left ==
    Max({0} \cup {schedule.responses[r].left_window
                    : r \in 1..Len(schedule.responses)})

\* faulty variant of time_to_wait_right: the variable that ends first
time_to_wait_right_of_first ==
    Min({variables[r].end : r \in 1..Len(variables)}) - experiment_end

\* Observer.time_to_wait_right (observer.py 79-83): the variable of largest
\* .end, minus experiment_end
time_to_wait_right ==
    Max({variables[r].end : r \in 1..Len(variables)}) - experiment_end

\* the SUE is up and the preconditions hold: Engine.run is at engine.py 117
InitTiming ==
    /\ pc = "generator_start"
    /\ ret = "none"
    /\ exc = "none"
    /\ exit_code = None
    /\ spec = [treatments |-> <<>>, include |-> {}, exclude |-> {},
               responses |-> 1]
    /\ runs = DefaultTimes
    /\ orchestration_timeout = 0
    /\ idx = 0
    /\ treatments = <<>>
    /\ i = 0
    /\ sue_service_names = Services
    /\ status = [s \in Services |-> "running"]
    /\ container = "unset"
    /\ elapsed = 0
    /\ all_ready = <<>>
    /\ sue_running = TRUE
    /\ loadgen_running = FALSE
    /\ generator = "created"
    /\ now = 0
    /\ experiment_start = None
    /\ experiment_end = None
    /\ data = <<>>
    /\ stored = {}
    /\ log = <<>>
    /\ LabelIdle
    /\ StoreIdle
    /\ LaterIdle
    /\ schedule \in Schedules
    /\ variables = <<>>
    /\ quit_at = None

\* engine.py 117 and loadgen.py 110-117: start the local runner and schedule
\* runner.quit() run_time seconds from now (gevent.spawn_later)
timed_generator_start ==
    /\ pc = "generator_start"
    /\ generator' = "running"
    /\ quit_at' = now + schedule.run_time
    /\ pc' = "loadgen_running"
    /\ UNCHANGED <<loadgen_running, now, experiment_start, experiment_end,
                   schedule, variables, untimed_vars, label_vars, store_vars, later_vars>>

\* engine.py 118-122: loadgen_running = True; experiment_start = utc_timestamp()
timed_set_loadgen_running ==
    /\ pc = "loadgen_running"
    /\ loadgen_running' = TRUE
    /\ experiment_start' = now
    /\ pc' = "execute_runtime_treatments"
    /\ UNCHANGED <<generator, now, experiment_end, timing_vars, untimed_vars,
                   label_vars, store_vars, later_vars>>

\* engine.py 123-124 and runner.py 199-207: sleep for time_to_wait_left(),
\* then the runtime treatments, which take treatments_time
timed_execute_runtime_treatments ==
    /\ pc = "execute_runtime_treatments"
    /\ now' = now + time_to_wait_left + schedule.treatments_time
    /\ pc' = "experiment_end"
    /\ UNCHANGED <<generator, loadgen_running, experiment_start,
                   experiment_end, timing_vars, untimed_vars, label_vars, store_vars, later_vars>>

\* engine.py 125-126: experiment_end = utc_timestamp()
timed_set_experiment_end ==
    /\ pc = "experiment_end"
    /\ experiment_end' = now
    /\ pc' = "initialize_variables"
    /\ UNCHANGED <<generator, loadgen_running, now, experiment_start,
                   timing_vars, untimed_vars, label_vars, store_vars, later_vars>>

\* faulty variant of initialize_variables: the two windows exchanged
initialize_variables_exchanged ==
    /\ pc = "initialize_variables"
    /\ variables' = [r \in 1..Len(schedule.responses) |->
            [start |-> experiment_start - schedule.responses[r].right_window,
             end |-> experiment_end + schedule.responses[r].left_window,
             observed_at |-> None]]
    /\ pc' = "sleep_right_window"
    /\ UNCHANGED <<generator, loadgen_running, now, experiment_start,
                   experiment_end, schedule, quit_at, untimed_vars, label_vars, store_vars, later_vars>>

\* runner.py 211, observer.py 54-74 and responses.py 39-46 / 194-200: build
\* the variables; start = experiment_start - left_window,
\* end = experiment_end + right_window, data = None
initialize_variables ==
    /\ pc = "initialize_variables"
    /\ variables' = [r \in 1..Len(schedule.responses) |->
            [start |-> experiment_start - schedule.responses[r].left_window,
             end |-> experiment_end + schedule.responses[r].right_window,
             observed_at |-> None]]
    /\ pc' = "sleep_right_window"
    /\ UNCHANGED <<generator, loadgen_running, now, experiment_start,
                   experiment_end, schedule, quit_at, untimed_vars, label_vars, store_vars, later_vars>>

\* runner.py 212-214: time.sleep(time_to_wait_right())
sleep_right_window ==
    /\ pc = "sleep_right_window"
    /\ now' = now + time_to_wait_right
    /\ pc' = "observe"
    /\ UNCHANGED <<generator, loadgen_running, experiment_start,
                   experiment_end, timing_vars, untimed_vars, label_vars, store_vars, later_vars>>

\* runner.py 215 and observer.py 114-119: observe() of every variable, in turn
timed_observe ==
    /\ pc = "observe"
    /\ IF \E r \in 1..Len(variables) : variables[r].observed_at = None
       THEN LET r == Min({q \in 1..Len(variables) :
                            variables[q].observed_at = None})
            IN  /\ variables' = [variables EXCEPT ![r].observed_at = now]
                /\ pc' = pc
       ELSE /\ pc' = "generator_stop"
            /\ variables' = variables
    /\ UNCHANGED <<generator, loadgen_running, now, experiment_start,
                   experiment_end, schedule, quit_at, untimed_vars, label_vars, store_vars, later_vars>>

\* engine.py 128-129 and loadgen.py 119-122: join the runner's greenlet, which
\* ends when the timer has fired; then loadgen_running = False
timed_generator_stop ==
    /\ pc = "generator_stop"
    /\ now' = Max({now, quit_at})
    /\ generator' = "finished"
    /\ loadgen_running' = FALSE
    /\ pc' = "write_dataframe"
    /\ UNCHANGED <<experiment_start, experiment_end, timing_vars,
                   untimed_vars, label_vars, store_vars, later_vars>>

NextTiming ==
    \/ timed_generator_start
    \/ timed_set_loadgen_running
    \/ timed_execute_runtime_treatments
    \/ timed_set_experiment_end
    \/ initialize_variables
    \/ sleep_right_window
    \/ timed_observe
    \/ timed_generator_stop

TimingSpec == InitTiming /\ [][NextTiming]_vars

\* ---- the prefix indexed store: oxn/store.py ----------------------------------
\* A storage key is a Python str; here a sequence of code points, so that the
\* order of sorted() is the order of the strings.
Slash == 47

\* the letters "a" and "b"
Letters == {97, 98}

\* the strings handed to Trie.insert and Trie.query when the trie is used on
\* its own: every string over the letters up to the bound
Strings == UNION {[1..n -> Letters] : n \in 0..MaxKeyLen}

\* experiment, run and response names of the keys written to the store; the
\* response "aa" starts with the response "a"
ExperimentKeys == {<<97>>}

RunKeys == {<<97>>, <<98>>}

ResponseKeys == {<<97>>, <<97, 97>>}

\* the dataframes written
Dataframes == {1, 2}

\* store.py 103-105
construct_key(experiment_key, run_key, response_key) ==
    experiment_key \o <<Slash>> \o run_key \o <<Slash>> \o response_key

StoreKeys ==
    {construct_key(e, r, v) : e \in ExperimentKeys, r \in RunKeys,
                              v \in ResponseKeys}

\* the keys asked for: every stored key, every prefix of one (the empty
\* string, an experiment, an experiment and a run, ...) and a key that was
\* never written
LookupKeys ==
    UNION {{SubSeq(k, 1, n) : n \in 0..Len(k)} : k \in StoreKeys} \cup {<<98>>}

\* store.py 22-28: Node(character); children is the dict's keys in insertion
\* order, the child object itself is the node at the path extended by the key
Node(character) == [character |-> character, end |-> FALSE, children |-> <<>>]

\* store.py 35: Trie.root = Node(""); a node is known by its path from the root
EmptyTrie == [path \in {<<>>} |-> Node(<<>>)]

\* `character in node.children`
has_child(node, character) ==
    \E c \in 1..Len(node.children) : node.children[c] = character

\* store.py 46-55: walk the characters of the entry from `node`, creating the
\* missing nodes, and mark the last node as an end
RECURSIVE insert_from(_, _, _)
insert_from(trie, node, store_entry) ==
    IF store_entry = <<>>
    THEN [trie EXCEPT ![node].end = TRUE]
    ELSE LET character == Head(store_entry)
             child == Append(node, character)
         IN  IF has_child(trie[node], character)
             THEN insert_from(trie, child, Tail(store_entry))
             ELSE insert_from(
                    [path \in DOMAIN trie \cup {child} |->
                        IF path = child THEN Node(<<character>>)
                        ELSE IF path = node
                             THEN [trie[node] EXCEPT
                                     !.children = Append(@, character)]
                             ELSE trie[path]],
                    child, Tail(store_entry))

\* store.py 44-57: Trie.insert
insert(trie, store_entry) == insert_from(trie, <<>>, store_entry)

\* store.py 59-64: Trie.depth_first_search, as the list of what it appends to
\* self.keys: the node's own key first, then the children in dict order
RECURSIVE depth_first_search(_, _, _, _)
depth_first_search(trie, node, children, prefix) ==
    IF children = <<>>
    THEN <<>>
    ELSE LET child == Append(node, Head(children))
             found == IF trie[child].end
                      THEN <<prefix \o trie[child].character>>
                      ELSE <<>>
         IN  found
             \o depth_first_search(trie, child, trie[child].children,
                                   prefix \o trie[child].character)
             \o depth_first_search(trie, node, Tail(children), prefix)

\* Python's `a < b` on str: by code point, a proper prefix is smaller
RECURSIVE less(_, _)
less(a, b) ==
    IF a = <<>> THEN b # <<>>
    ELSE IF b = <<>> THEN FALSE
    ELSE IF Head(a) # Head(b) THEN Head(a) < Head(b)
    ELSE less(Tail(a), Tail(b))

\* sorted(list, reverse=...): a stable sort, by insertion from the left
RECURSIVE place(_, _, _)
place(x, list, reverse) ==
    IF list = <<>> THEN <<x>>
    ELSE IF (IF reverse THEN less(Head(list), x) ELSE less(x, Head(list)))
         THEN <<x>> \o list
         ELSE <<Head(list)>> \o place(x, Tail(list), reverse)

RECURSIVE sorted(_, _)
sorted(list, reverse) ==
    IF list = <<>> THEN <<>>
    ELSE place(list[Len(list)], sorted(SubSeq(list, 1, Len(list) - 1), reverse),
               reverse)

\* store.py 76-80: the node the item leads to, if every character is there
RECURSIVE descend(_, _, _)
descend(trie, node, item) ==
    IF item = <<>> THEN [found |-> TRUE, node |-> node]
    ELSE IF has_child(trie[node], Head(item))
         THEN descend(trie, Append(node, Head(item)), Tail(item))
         ELSE [found |-> FALSE, node |-> node]

\* item[:-1]
all_but_last(item) ==
    IF item = <<>> THEN <<>> ELSE SubSeq(item, 1, Len(item) - 1)

\* faulty variant of query: the search starts with the whole item as prefix,
\* so the last character of the item appears twice in every key
query_item_as_prefix(trie, item) ==
    LET at == descend(trie, <<>>, item)
    IN  IF ~at.found
        THEN [keys |-> <<>>, result |-> <<>>]
        ELSE LET here == IF trie[at.node].end
                         THEN <<item \o trie[at.node].character>>
                         ELSE <<>>
                 found == here \o depth_first_search(trie, at.node,
                              trie[at.node].children,
                              item \o trie[at.node].character)
             IN  [keys |-> found, result |-> sorted(found, TRUE)]

\* store.py 66-83: Trie.query: what is left in self.keys and what is returned.
\* The search is started at the node found, with item[:-1] as the prefix: the
\* node's own character completes the item.
query(trie, item) ==
    LET at == descend(trie, <<>>, item)
    IN  IF ~at.found
        THEN [keys |-> <<>>, result |-> <<>>]
        ELSE LET prefix == all_but_last(item)
                 here == IF trie[at.node].end
                         THEN <<prefix \o trie[at.node].character>>
                         ELSE <<>>
                 found == here \o depth_first_search(trie, at.node,
                              trie[at.node].children,
                              prefix \o trie[at.node].character)
             IN  [keys |-> found, result |-> sorted(found, TRUE)]

\* everything but the store is at rest
StoreOnly ==
    /\ EngineIdle
    /\ LabelIdle
    /\ TimingIdle
    /\ LaterIdle

\* Trie(disk_name=None): an empty trie used on its own
InitTrie ==
    /\ StoreOnly
    /\ StoreIdle

\* Trie.insert(store_entry); a result of an earlier query is dropped
Trie_insert ==
    /\ Len(inserted) < MaxInserts
    /\ \E store_entry \in Strings :
        /\ root' = insert(root, store_entry)
        /\ inserted' = Append(inserted, store_entry)
    /\ queried' = <<>>
    /\ UNCHANGED <<keys, hdf, last_written, got>>
    /\ UNCHANGED <<engine_vars, label_vars, timing_vars, later_vars>>

\* Trie.query(item)
Trie_query ==
    /\ \E item \in Strings :
        LET answer == query(root, item)
        IN  /\ keys' = answer.keys
            /\ queried' = <<[item |-> item, result |-> answer.result]>>
    /\ UNCHANGED <<root, inserted, hdf, last_written, got>>
    /\ UNCHANGED <<engine_vars, label_vars, timing_vars, later_vars>>

NextTrie ==
    \/ Trie_insert
    \/ Trie_query

TrieSpec == InitTrie /\ [][NextTrie]_vars

\* the store file and the trie file do not exist yet
InitStore ==
    /\ StoreOnly
    /\ StoreIdle

\* faulty variant of write_dataframe: the key is not inserted into the trie
write_dataframe_not_indexed(dataframe, experiment_key, run_key, response_key) ==
    LET key == construct_key(experiment_key, run_key, response_key)
    IN  /\ hdf' = [k \in DOMAIN hdf \cup {key} |->
                      IF k = key THEN dataframe ELSE hdf[k]]
        /\ last_written' = key
        /\ got' = <<>>
        /\ UNCHANGED <<root, keys, queried, inserted>>
        /\ UNCHANGED <<engine_vars, label_vars, timing_vars, later_vars>>

\* store.py 108-114: store.put(key, value), then Trie().insert(key), which
\* loads the trie from its file and writes it back
store_write_dataframe(dataframe, experiment_key, run_key, response_key) ==
    LET key == construct_key(experiment_key, run_key, response_key)
    IN  /\ hdf' = [k \in DOMAIN hdf \cup {key} |->
                      IF k = key THEN dataframe ELSE hdf[k]]
        /\ root' = insert(root, key)
        /\ last_written' = key
        /\ got' = <<>>
        /\ UNCHANGED <<keys, queried, inserted>>
        /\ UNCHANGED <<engine_vars, label_vars, timing_vars, later_vars>>

\* store.py 117-123: the store is read whenever the trie has a key that
\* starts with `key`; store.get raises for a key that holds no frame.  With no
\* result the function falls off its end and returns None.
store_get_dataframe(key) ==
    /\ got' = IF query(root, key).result # <<>>
              THEN IF key \in DOMAIN hdf
                   THEN <<[key |-> key, outcome |-> "returned",
                           value |-> hdf[key]]>>
                   ELSE <<[key |-> key, outcome |-> "raised", value |-> None]>>
              ELSE <<[key |-> key, outcome |-> "returned", value |-> None]>>
    /\ UNCHANGED <<root, keys, queried, inserted, hdf, last_written>>
    /\ UNCHANGED <<engine_vars, label_vars, timing_vars, later_vars>>

\* store.py 132-135: store.remove(key); the trie is not touched.  (For a key
\* that is not in the store, store.remove raises and nothing changes.)
store_remove_dataframe(key) ==
    /\ key \in DOMAIN hdf
    /\ hdf' = [k \in DOMAIN hdf \ {key} |-> hdf[k]]
    /\ got' = <<>>
    /\ UNCHANGED <<root, keys, queried, inserted, last_written>>
    /\ UNCHANGED <<engine_vars, label_vars, timing_vars, later_vars>>

NextStore ==
    \/ \E dataframe \in Dataframes, e \in ExperimentKeys, r \in RunKeys,
          v \in ResponseKeys : store_write_dataframe(dataframe, e, r, v)
    \/ \E key \in LookupKeys : store_get_dataframe(key)
    \/ \E key \in StoreKeys : store_remove_dataframe(key)

StoreSpec == InitStore /\ [][NextStore]_vars

\* ---- building the treatments: Treatment.__init__ and _build_treatments ---------
\* A parameter value is known by what the validation looks at: "str" is a
\* string of the form its parameter asks for (a time string, a percentage, a
\* name), "bad_str" a string of another form, "int" an integer, "f1" and "f2"
\* paths of two existing files ("float" and "dict" are what _transform_params
\* adds).
StrValues == {"str", "bad_str", "f1", "f2"}

\* isinstance(value, type) for the two types the params() tables use
isinstance(value, type) ==
    IF type = "str" THEN value \in StrValues ELSE value = "int"

\* utils.validate_time_string on a string (re.match raises TypeError on
\* anything else)
validate_time_string(value) == value = "str"

\* the kinds whose constructor is modelled, by their key in
\* ExperimentRunner.treatment_keys
BuildKinds == {"empty", "kill", "loss", "pause", "tail", "probl"}

\* params() of the kind, in the order of the dict
params(kind) ==
    CASE kind = "empty" -> << <<"duration", "str">> >>
      [] kind = "kill"  -> << <<"service_name", "str">>, <<"duration", "str">> >>
      [] kind = "pause" -> << <<"service_name", "str">>, <<"duration", "str">> >>
      [] kind = "loss"  -> << <<"service_name", "str">>, <<"duration", "str">>,
                              <<"interface", "str">>,
                              <<"loss_percentage", "str">> >>
      [] kind = "probl" -> << <<"otelcol_extras", "str">>,
                              <<"percentage", "int">>, <<"seed", "int">> >>
      [] kind = "tail"  -> << <<"otelcol_extras", "str">> >>

\* self.messages, the local `bools` of EmptyTreatment, and the exception that
\* ended _validate_params, if any
NoMessages == [messages |-> <<>>, bools |-> <<>>, raised |-> "none"]

\* self.messages.append(...)
message(acc, text, key) == [acc EXCEPT !.messages = Append(@, <<text, key>>)]

\* the body of the loop `for key, value in self.params().items()`
check_param(kind, cfg, key, type, acc) ==
    LET missing == key \notin DOMAIN cfg IN
    CASE kind = "empty" ->
            \* treatments.py 44-48: a missing key appends False, a value of
            \* the wrong type only a message
            LET a1 == IF key \in {"duration"} /\ missing
                      THEN [message(acc, "supplied", key) EXCEPT
                                !.bools = Append(@, FALSE)]
                      ELSE acc
            IN  IF ~missing /\ ~isinstance(cfg[key], type)
                THEN message(a1, "type", key)
                ELSE a1
      [] kind = "kill" ->
            \* treatments.py 977-984: self.config[key] is read whether or
            \* not the key is there
            IF key # "service_name" THEN acc
            ELSE IF missing
                 THEN [message(acc, "supplied", key) EXCEPT
                            !.raised = "KeyError"]
                 ELSE IF ~isinstance(cfg[key], type)
                      THEN message(acc, "type", key)
                      ELSE acc
      [] kind = "loss" ->
            \* treatments.py 809-816: the same, for every key
            IF missing
            THEN [message(acc, "supplied", key) EXCEPT !.raised = "KeyError"]
            ELSE IF ~isinstance(cfg[key], type)
                 THEN message(acc, "type", key)
                 ELSE acc
      [] kind \in {"pause", "probl"} ->
            \* treatments.py 571-580 and 426-433
            IF missing THEN message(acc, "required", key)
            ELSE IF ~isinstance(cfg[key], type)
                 THEN message(acc, "type", key)
                 ELSE acc
      [] kind = "tail" -> acc

\* a format check of the second loop: the value is matched against a regex
check_format(cfg, key, acc, append_false) ==
    IF ~isinstance(cfg[key], "str")
    THEN [acc EXCEPT !.raised = "TypeError"]
    ELSE IF ~validate_time_string(cfg[key])
         THEN IF append_false
              THEN [message(acc, "format", key) EXCEPT
                        !.bools = Append(@, FALSE)]
              ELSE message(acc, "format", key)
         ELSE acc

\* the body of the loop over self.config.  PauseTreatment (581) and
\* ProbabilisticSamplingTreatment (434) iterate `for key in
\* self.config.items()`: key is a pair and equals no parameter name, so their
\* checks never run.
check_value(kind, cfg, key, acc) ==
    CASE kind = "empty" ->
            IF key = "duration" THEN check_format(cfg, key, acc, TRUE) ELSE acc
      [] kind = "kill" ->
            IF key = "duration" THEN check_format(cfg, key, acc, FALSE) ELSE acc
      [] kind = "loss" ->
            IF key \in {"duration", "loss_percentage"}
            THEN check_format(cfg, key, acc, FALSE)
            ELSE acc
      [] OTHER -> acc

RECURSIVE loop_params(_, _, _, _)
loop_params(kind, cfg, items, acc) ==
    IF items = <<>> \/ acc.raised # "none" THEN acc
    ELSE loop_params(kind, cfg, Tail(items),
                     check_param(kind, cfg, Head(items)[1], Head(items)[2],
                                 acc))

RECURSIVE loop_config(_, _, _, _)
loop_config(kind, cfg, items, acc) ==
    IF items = <<>> \/ acc.raised # "none" THEN acc
    ELSE loop_config(kind, cfg, Tail(items),
                     IF Head(items)[1] \in DOMAIN cfg
                     THEN check_value(kind, cfg, Head(items)[1], acc)
                     ELSE acc)

\* _validate_params of the kind: the messages it accumulated, what it
\* returned, and the exception it raised instead of returning.  The keys of
\* the config are visited in the order of params().
\* TailSamplingTreatment (536-538) returns True; EmptyTreatment (56) returns
\* all(bools); the others `not self.messages`.
_validate_params(kind, cfg) ==
    IF kind = "tail"
    THEN [messages |-> <<>>, raised |-> "none", returns |-> TRUE]
    ELSE LET acc == loop_config(kind, cfg, params(kind),
                                loop_params(kind, cfg, params(kind),
                                            NoMessages))
         IN  [messages |-> acc.messages, raised |-> acc.raised,
              returns |-> IF kind = "empty" THEN all(acc.bools)
                          ELSE acc.messages = <<>>]

\* self.config[key] = value
SetItem(cfg, key, value) ==
    [x \in DOMAIN cfg \cup {key} |-> IF x = key THEN value ELSE cfg[x]]

\* _transform_params of the kind: it writes into self.config
_transform_params(kind, cfg) ==
    CASE kind \in {"empty", "kill"} -> SetItem(cfg, "duration_seconds", "float")
      [] kind = "pause" ->
            IF "duration" \in DOMAIN cfg
            THEN SetItem(cfg, "duration_seconds", "float")
            ELSE cfg
      [] kind = "loss" ->
            IF "duration" \in DOMAIN cfg
            THEN SetItem(SetItem(cfg, "duration_string", "str"),
                         "duration_integer", "float")
            ELSE cfg
      [] kind \in {"tail", "probl"} -> SetItem(cfg, "otelcol_extras_yaml", "dict")

\* faulty variant of Treatment.__init__: a config that does not validate is
\* transformed and the object is returned
Treatment__init__unchecked(kind, cfg) ==
    LET v == _validate_params(kind, cfg) IN
    IF v.raised # "none"
    THEN [raises |-> v.raised, explained |-> FALSE, messages |-> v.messages,
          validated |-> FALSE, transformed |-> FALSE, config |-> cfg]
    ELSE [raises |-> "none", explained |-> FALSE, messages |-> v.messages,
          validated |-> v.returns, transformed |-> TRUE,
          config |-> _transform_params(kind, cfg)]

\* models/treatment.py 14-37: validate; raise OxnException with the messages
\* when the result is false; otherwise transform.  `config` is what
\* self.config, the dict of the spec, holds afterwards.
Treatment__init__(kind, cfg) ==
    LET v == _validate_params(kind, cfg) IN
    IF v.raised # "none"
    THEN [raises |-> v.raised, explained |-> FALSE, messages |-> v.messages,
          validated |-> FALSE, transformed |-> FALSE, config |-> cfg]
    ELSE IF ~v.returns
         THEN [raises |-> "OxnException", explained |-> TRUE,
               messages |-> v.messages, validated |-> FALSE,
               transformed |-> FALSE, config |-> cfg]
         ELSE [raises |-> "none", explained |-> FALSE,
               messages |-> v.messages, validated |-> TRUE,
               transformed |-> TRUE, config |-> _transform_params(kind, cfg)]

\* runner.py 149-159: a TypeError of the constructor becomes an OxnException
\* that says the treatment key does not exist
_build_treatment(action, cfg) ==
    LET instance == Treatment__init__(action, cfg) IN
    IF instance.raises = "TypeError"
    THEN [instance EXCEPT !.raises = "OxnException"]
    ELSE instance

\* the params sections tried for a kind: for each parameter the values it
\* can have, "absent" for a parameter that is left out
Choices(kind) ==
    CASE kind = "empty" -> [duration |-> {"absent", "str", "bad_str", "int"}]
      [] kind = "kill"  -> [service_name |-> {"absent", "str", "int"},
                            duration |-> {"absent", "str", "bad_str", "int"}]
      [] kind = "pause" -> [service_name |-> {"absent", "str", "int"},
                            duration |-> {"absent", "str", "bad_str", "int"}]
      [] kind = "loss"  -> [service_name |-> {"absent", "str"},
                            duration |-> {"absent", "str", "int"},
                            interface |-> {"absent", "str"},
                            loss_percentage |-> {"str", "bad_str"}]
      [] kind = "tail"  -> [otelcol_extras |-> {"f1", "f2"}]
      [] kind = "probl" -> [otelcol_extras |-> {"f1", "f2"},
                            percentage |-> {"absent", "int", "str"},
                            seed |-> {"int"}]

ParamsOf(kind) ==
    LET choices == Choices(kind)
        full == {f \in [DOMAIN choices -> StrValues \cup {"absent", "int"}] :
                    \A key \in DOMAIN choices : f[key] \in choices[key]}
    IN  {[key \in {x \in DOMAIN f : f[x] # "absent"} |-> f[key]] : f \in full}

\* one entry of the treatments section: name -> {action, params}
Descriptions(name) ==
    UNION {{[name |-> name, action |-> kind, params |-> p] :
                p \in ParamsOf(kind)} : kind \in BuildKinds}

TreatmentNamesInOrder == <<"t1", "t2">>

\* treatments sections of zero, one and two entries
Sections ==
    {<<>>}
    \cup {<<d>> : d \in Descriptions(TreatmentNamesInOrder[1])}
    \cup {<<d, e>> : d \in Descriptions(TreatmentNamesInOrder[1]),
                     e \in Descriptions(TreatmentNamesInOrder[2])}

\* idx of Engine.run for --times 2
RunIndexes == {0, 1}

\* everything but the component is at rest
ComponentOnly ==
    /\ EngineIdle
    /\ LabelIdle
    /\ TimingIdle
    /\ StoreIdle

\* the spec was loaded and validated syntactically: the treatments section is
\* optional in the schema (validation.py 185)
InitBuild ==
    /\ ComponentOnly
    /\ \E read \in {[has_treatments |-> FALSE, treatments |-> <<>>]}
                   \cup {[has_treatments |-> TRUE, treatments |-> section] :
                            section \in Sections},
          randomize \in BOOLEAN :
            component = [kind |-> "runner",
                         runner_config |-> read,
                         loaded |-> read,
                         random_treatment_order |-> randomize,
                         runner_treatments |-> <<>>,
                         constructed |-> <<>>,
                         position |-> 0,
                         build_pc |-> "new_runner",
                         build_exc |-> "none",
                         run_index |-> 0]

\* the orders random.shuffle can leave a list in
Shuffles(list) ==
    {[n \in 1..Len(list) |-> list[p[n]]] :
        p \in {q \in [1..Len(list) -> 1..Len(list)] :
                \A a \in 1..Len(list) : \A b \in 1..Len(list) :
                    a # b => q[a] # q[b]}}

\* engine.py 93-99 and runner.py 134-138: ExperimentRunner(config=self.spec)
\* reads config["experiment"]["treatments"], a KeyError when the section is
\* not there, and shuffles that list, the list of the spec, in place
new_runner ==
    /\ build_pc = "new_runner"
    /\ IF ~runner_config.has_treatments
       THEN component' = [component EXCEPT !.runner_treatments = <<>>,
                                           !.build_exc = "KeyError",
                                           !.build_pc = "raised"]
       ELSE \E shuffled \in IF random_treatment_order
                            THEN Shuffles(runner_config.treatments)
                            ELSE {runner_config.treatments} :
                component' = [component EXCEPT
                                !.runner_treatments = <<>>,
                                !.runner_config.treatments = shuffled,
                                !.position = 1,
                                !.build_pc = "build"]
    /\ UNCHANGED not_component_vars

\* runner.py 139-147: one iteration of the loop: build the treatment from its
\* description and put it into the map under its name.  The object keeps
\* the params dict of the spec as its config, so what _transform_params
\* writes is written into the spec.
build_treatment ==
    /\ build_pc = "build"
    /\ position <= Len(runner_config.treatments)
    /\ LET description == runner_config.treatments[position]
           instance == _build_treatment(description.action, description.params)
           called == Append(constructed,
                    [name |-> description.name, run |-> run_index,
                     raises |-> Treatment__init__(description.action,
                                                  description.params).raises,
                     explained |-> instance.explained,
                     messages |-> instance.messages])
       IN  IF instance.raises # "none"
           THEN component' = [component EXCEPT
                    !.constructed = called,
                    !.runner_config.treatments[position].params = instance.config,
                    !.build_exc = instance.raises,
                    !.build_pc = "raised"]
           ELSE component' = [component EXCEPT
                    !.constructed = called,
                    !.runner_config.treatments[position].params = instance.config,
                    !.runner_treatments = Append(runner_treatments,
                        [name |-> description.name,
                         action |-> description.action,
                         config |-> instance.config,
                         validated |-> instance.validated,
                         transformed |-> instance.transformed,
                         injects |-> 0, cleans |-> 0]),
                    !.position = position + 1]
    /\ UNCHANGED not_component_vars

\* runner.py 139: the loop is over
build_done ==
    /\ build_pc = "build"
    /\ position > Len(runner_config.treatments)
    /\ component' = [component EXCEPT !.build_pc = "built"]
    /\ UNCHANGED not_component_vars

\* engine.py 100-124: the run injects and cleans the treatments of the map
run_treatments ==
    /\ build_pc = "built"
    /\ component' = [component EXCEPT
            !.runner_treatments = [t \in 1..Len(runner_treatments) |->
                [runner_treatments[t] EXCEPT !.injects = @ + 1, !.cleans = @ + 1]],
            !.build_pc = "ran"]
    /\ UNCHANGED not_component_vars

\* engine.py 80: the next iteration builds a new runner from self.spec
next_run ==
    /\ build_pc = "ran"
    /\ run_index + 1 \in RunIndexes
    /\ component' = [component EXCEPT !.run_index = run_index + 1,
                                       !.build_pc = "new_runner"]
    /\ UNCHANGED not_component_vars

NextBuild ==
    \/ new_runner
    \/ build_treatment
    \/ build_done
    \/ run_treatments
    \/ next_run

BuildSpec == InitBuild /\ [][NextBuild]_vars

\* ==== the report of the interactions (report.py, engine.py 131-169) ===========
\* names of the response variables of the spec, in the observer's order
ResponseNames == <<"r1", "r2">>

\* what response.data can be when the report is gathered: a frame that has the
\* value column and a label column per treatment, or one that has neither
\* (a variable that observed no data)
Frames == {"labelled", "no_columns"}

\* Engine.run(runs=...) of the runs modelled
ReportTimes == {1, 2}

\* Reporter.compute_welch_ttest(dataframe, label, label_column, value_column):
\* a KeyError of the column lookups becomes an OxnException; the statistic
\* and the p-value of scipy's test are left out, they decide nothing here
compute_welch_ttest(dataframe, label_value, label_column, value_column) ==
    IF dataframe = "no_columns"
    THEN [raises |-> "OxnException", test_performed |-> "none"]
    ELSE [raises |-> "none", test_performed |-> "welch t-test"]

\* Reporter._add_interaction_data(...): the entry appended to
\* Reporter.interactions; the store key names the run and the response
_add_interaction_data(interactions, treatment_name, response_name, store_key) ==
    Append(interactions, [treatment_name |-> treatment_name,
                          response_name |-> response_name,
                          store_key |-> store_key])

\* Reporter.assemble_interaction_data(run_key): the run's section is replaced
\* by every entry of Reporter.interactions, keyed by its position
assemble_interaction_data(report_runs, interactions, run_key) ==
    [r \in DOMAIN report_runs \cup {run_key} |->
        IF r = run_key
        THEN [n \in 0..(Len(interactions) - 1) |-> interactions[n + 1]]
        ELSE report_runs[r]]

\* Engine(report_path=...), Reporter.__init__ (report.py 19-26), and the
\* inputs of Engine.run: the runs, the treatments and the responses of the
\* spec, and the frames every run will observe
InitReport ==
    /\ ComponentOnly
    /\ \E runs_given \in ReportTimes,
          names \in {SubSeq(TreatmentNamesInOrder, 1, n) :
                        n \in 0..Len(TreatmentNamesInOrder)},
          n \in 0..Len(ResponseNames) :
        \E observed \in [1..runs_given -> [1..n -> Frames]] :
            component = [kind |-> "reporter",
                         times |-> runs_given,
                         treatment_names |-> names,
                         observer_variables |-> observed,
                         short_id |-> 0,
                         reporter_interactions |-> <<>>,
                         report_data |-> <<>>,
                         report_file |-> <<>>,
                         report_pc |-> "run",
                         response_index |-> 0,
                         treatment_index |-> 0,
                         report_sue_running |-> FALSE,
                         teardowns |-> <<>>,
                         report_exc |-> "none"]

\* engine.py 85-130: the run gets a new runner, whose short_id is a fresh
\* uuid (runner.py 73, 108), the sue is started, the treatments run and the
\* responses are observed
report_new_run ==
    /\ report_pc = "run"
    /\ component' = [component EXCEPT !.short_id = short_id + 1,
                                       !.report_sue_running = TRUE,
                                       !.response_index = 1,
                                       !.report_pc = "responses"]
    /\ UNCHANGED not_component_vars

\* engine.py 131-142: the next response is written to the store and, with a
\* report path, its interactions are gathered; after the last one the sue is
\* torn down
report_next_response ==
    /\ report_pc = "responses"
    /\ IF response_index > Len(observer_variables[short_id])
       THEN component' = [component EXCEPT !.report_pc = "teardown"]
       ELSE component' = [component EXCEPT !.report_pc = "gather",
                                            !.treatment_index = 1]
    /\ UNCHANGED not_component_vars

\* engine.py 143-151 and Reporter.gather_interaction (report.py 54-95): the
\* test of the next treatment against the response; its OxnException leaves
\* gather_interaction and Engine.run
gather_interaction ==
    /\ report_pc = "gather"
    /\ IF treatment_index > Len(treatment_names)
       THEN component' = [component EXCEPT !.report_pc = "assemble"]
       ELSE LET response == observer_variables[short_id][response_index]
                treatment == treatment_names[treatment_index]
                store_key == <<short_id, ResponseNames[response_index]>>
                result == compute_welch_ttest(response, "NoTreatment",
                                              treatment, "duration")
            IN  IF result.raises # "none"
                THEN component' = [component EXCEPT
                                        !.report_exc = result.raises,
                                        !.report_pc = "finally"]
                ELSE component' = [component EXCEPT
                        !.reporter_interactions =
                            _add_interaction_data(reporter_interactions, treatment,
                                ResponseNames[response_index], store_key),
                        !.treatment_index = treatment_index + 1]
    /\ UNCHANGED not_component_vars

\* engine.py 152-162: the section of the run is assembled after every
\* response (the load generation and accounting data go to other keys of the
\* run's section)
report_assemble ==
    /\ report_pc = "assemble"
    /\ component' = [component EXCEPT
            !.report_data = assemble_interaction_data(report_data,
                                reporter_interactions, short_id),
            !.response_index = response_index + 1,
            !.report_pc = "responses"]
    /\ UNCHANGED not_component_vars

\* engine.py 163-166: the sue is torn down and the next run starts, or the
\* loop over the runs ends
report_teardown ==
    /\ report_pc = "teardown"
    /\ component' = [component EXCEPT
            !.teardowns = Append(teardowns, short_id),
            !.report_sue_running = FALSE,
            !.report_pc = IF short_id < times THEN "run" ELSE "dump"]
    /\ UNCHANGED not_component_vars

\* engine.py 167-169, Reporter.dump_report_data (report.py 218-221): the
\* runs' sections are written to the file at report_path
dump_report_data ==
    /\ report_pc = "dump"
    /\ component' = [component EXCEPT !.report_file = <<report_data>>,
                                       !.report_pc = "finally"]
    /\ UNCHANGED not_component_vars

\* main.py 43-60: an OxnException of Engine.run is logged, and the sue is torn
\* down if engine.sue_running is still set
report_finally ==
    /\ report_pc = "finally"
    /\ component' = [component EXCEPT
            !.teardowns = IF report_sue_running
                          THEN Append(teardowns, short_id) ELSE teardowns,
            !.report_pc = "exited"]
    /\ UNCHANGED not_component_vars

NextReport ==
    \/ report_new_run
    \/ report_next_response
    \/ gather_interaction
    \/ report_assemble
    \/ report_teardown
    \/ dump_report_data
    \/ report_finally

ReportSpec == InitReport /\ [][NextReport]_vars

\* ==== compile-time treatments that rewrite a file (treatments.py) =============
\* A file is the YAML document its bytes hold and the form of those bytes:
\* "dumped" is the text yaml.dump writes for the document (block style, keys
\* sorted), "written" is any other text of the same document (comments, key
\* order, quoting, flow style; the empty file for the null document).
\* A document is null or a mapping, kept as its set of <<key, value>> pairs.
Null == [null |-> TRUE, items |-> {}]

Mapping(items) == [null |-> FALSE, items |-> items]

Forms == {"dumped", "written"}

\* yaml.safe_load(file.read()): the document, whatever the form of the text
safe_load(contents) == contents.document

\* yaml.dump(document, default_flow_style=False) and yaml.safe_dump(document):
\* the one text the library writes for the document
dump(document) == [document |-> document, form |-> "dumped"]

\* open(path, "w+") truncates the file: it is empty before anything is read
open_w_plus(contents) == [document |-> Null, form |-> "written"]

\* mapping[key] = value
set_key(document, key, value) ==
    Mapping({pair \in document.items : pair[1] # key} \cup {<<key, value>>})

\* mapping[key], for a key the mapping has
get_key(document, key) ==
    (CHOOSE pair \in document.items : pair[1] = key)[2]

\* dict.update(other)
update(document, other) ==
    Mapping({pair \in document.items :
                \A new \in other.items : new[1] # pair[1]} \cup other.items)

\* PrometheusIntervalTreatment._transform_params: the loaded file and its
\* global scrape interval are memorized
Prometheus_transform_params(cfg, contents) ==
    [prometheus_config |-> cfg.prometheus_config,
     interval |-> cfg.interval,
     prometheus_yaml |-> safe_load(contents),
     original_interval |-> get_key(safe_load(contents), "global.scrape_interval")]

\* PrometheusIntervalTreatment.inject: the memorized document with the new
\* interval is dumped to the file
Prometheus_inject(cfg, contents) ==
    LET prometheus_yaml == set_key(cfg.prometheus_yaml,
                                   "global.scrape_interval", cfg.interval)
    IN  [config |-> [cfg EXCEPT !.prometheus_yaml = prometheus_yaml],
         file |-> dump(prometheus_yaml)]

\* PrometheusIntervalTreatment.clean: the memorized document with the
\* original interval is dumped to the file
Prometheus_clean(cfg, contents) ==
    LET prometheus_yaml == set_key(cfg.prometheus_yaml,
                                   "global.scrape_interval", cfg.original_interval)
    IN  [config |-> [cfg EXCEPT !.prometheus_yaml = prometheus_yaml],
         file |-> dump(prometheus_yaml)]

\* ProbabilisticSamplingTreatment._transform_params: the loaded file, or an
\* empty mapping if it loads to nothing, is memorized
Probabilistic_transform_params(cfg, contents) ==
    [otelcol_extras |-> cfg.otelcol_extras,
     percentage |-> cfg.percentage,
     seed |-> cfg.seed,
     otelcol_extras_yaml |->
        IF safe_load(contents) = Null \/ safe_load(contents) = Mapping({})
        THEN Mapping({}) ELSE safe_load(contents)]

\* ProbabilisticSamplingTreatment.inject: the file is opened with "w+", read,
\* updated with the sampler and the pipeline, and dumped
Probabilistic_inject(cfg, contents) ==
    LET updated_extras ==
            Mapping({<<"processors", <<"probabilistic_sampler",
                        ToString(cfg.seed), ToString(cfg.percentage)>>>>,
                     <<"service", <<"probabilistic_sampler">>>>})
        opened == open_w_plus(contents)
        existing_config ==
            IF safe_load(opened) = Null \/ safe_load(opened) = Mapping({})
            THEN Mapping({}) ELSE safe_load(opened)
    IN  [config |-> cfg, file |-> dump(update(existing_config, updated_extras))]

\* ProbabilisticSamplingTreatment.clean: the memorized document is dumped
Probabilistic_clean(cfg, contents) ==
    [config |-> cfg, file |-> dump(cfg.otelcol_extras_yaml)]

\* MetricsExportIntervalTreatment._transform_params: the interval in
\* milliseconds and the loaded compose file are memorized
MetricsExportInterval_transform_params(cfg, contents) ==
    [compose_file |-> cfg.compose_file,
     service_name |-> cfg.service_name,
     interval_ms |-> cfg.interval_ms,
     original_yaml |-> safe_load(contents)]

\* the environment list with every entry of the variable replaced
RECURSIVE replace_env(_, _, _)
replace_env(environment, variable_name, variable_value) ==
    IF environment = <<>> THEN <<>>
    ELSE <<IF Head(environment).name = variable_name
           THEN [name |-> variable_name, value |-> variable_value]
           ELSE Head(environment)>>
         \o replace_env(Tail(environment), variable_name, variable_value)

\* utils.add_env_variable, for a service the compose file has and an
\* environment that is a list or missing: the file is loaded, the variable
\* is replaced or appended, and the document is dumped
add_env_variable(contents, service_name, variable_name, variable_value) ==
    LET compose_dict == safe_load(contents)
        with_environment ==
            IF \E pair \in compose_dict.items : pair[1] = "environment"
            THEN compose_dict
            ELSE set_key(compose_dict, "environment", <<>>)
        environment == get_key(with_environment, "environment")
        exists == \E n \in 1..Len(environment) :
                        environment[n].name = variable_name
        changed == IF exists
                   THEN replace_env(environment, variable_name, variable_value)
                   ELSE Append(environment, [name |-> variable_name,
                                             value |-> variable_value])
    IN  dump(set_key(with_environment, "environment", changed))

\* MetricsExportIntervalTreatment.inject
MetricsExportInterval_inject(cfg, contents) ==
    [config |-> cfg,
     file |-> add_env_variable(contents, cfg.service_name,
                               "OTEL_METRIC_EXPORT_INTERVAL",
                               ToString(cfg.interval_ms))]

\* MetricsExportIntervalTreatment.clean: the memorized document is dumped
MetricsExportInterval_clean(cfg, contents) ==
    [config |-> cfg, file |-> dump(cfg.original_yaml)]

\* the treatment's inject and clean by its configuration's path parameter
inject_file(cfg, contents) ==
    IF "prometheus_config" \in DOMAIN cfg THEN Prometheus_inject(cfg, contents)
    ELSE IF "otelcol_extras" \in DOMAIN cfg THEN Probabilistic_inject(cfg, contents)
    ELSE MetricsExportInterval_inject(cfg, contents)

clean_file(cfg, contents) ==
    IF "prometheus_config" \in DOMAIN cfg THEN Prometheus_clean(cfg, contents)
    ELSE IF "otelcol_extras" \in DOMAIN cfg THEN Probabilistic_clean(cfg, contents)
    ELSE MetricsExportInterval_clean(cfg, contents)

\* Prometheus configurations: a global scrape interval, with or without
\* scrape configs
PrometheusDocuments ==
    {Mapping({<<"global.scrape_interval", interval>>} \cup rest) :
        interval \in {"15s", "1m"},
        rest \in {{}, {<<"scrape_configs", "otelcol">>}}}

\* collector extras: an empty file, an empty mapping, or a mapping with
\* processors or receivers of its own
ExtrasDocuments ==
    {Null, Mapping({}),
     Mapping({<<"receivers", <<"otlp">>>>}),
     Mapping({<<"processors", <<"batch">>>>}),
     Mapping({<<"processors", <<"batch">>>>, <<"receivers", <<"otlp">>>>})}

\* compose files: the service without an environment, or with a list that
\* has the variable or not
ComposeDocuments ==
    {Mapping({})}
    \cup {Mapping({<<"environment", environment>>}) :
            environment \in
                {<<>>,
                 <<[name |-> "OTEL_SERVICE_NAME", value |-> "s"]>>,
                 <<[name |-> "OTEL_METRIC_EXPORT_INTERVAL", value |-> "60000"]>>,
                 <<[name |-> "OTEL_SERVICE_NAME", value |-> "s"],
                   [name |-> "OTEL_METRIC_EXPORT_INTERVAL", value |-> "60000"]>>}}

\* Treatment.__init__ of one of the three treatments returned: the file the
\* parameters name exists, in any form of a document the constructor
\* accepts, and _transform_params has read it
InitFile ==
    /\ ComponentOnly
    /\ \E form \in Forms :
        \/ \E document \in PrometheusDocuments, interval \in {"5s", "15s"} :
            LET contents == [document |-> document, form |-> form]
            IN  component = [kind |-> "file",
                             target_file |-> contents,
                             treatment_config |-> Prometheus_transform_params(
                                [prometheus_config |-> "f", interval |-> interval],
                                contents),
                             before_inject |-> <<>>,
                             file_pc |-> "constructed"]
        \/ \E document \in ExtrasDocuments, percentage \in {10, 50},
              seed \in {1, 2} :
            LET contents == [document |-> document, form |-> form]
            IN  component = [kind |-> "file",
                             target_file |-> contents,
                             treatment_config |-> Probabilistic_transform_params(
                                [otelcol_extras |-> "f", percentage |-> percentage,
                                 seed |-> seed], contents),
                             before_inject |-> <<>>,
                             file_pc |-> "constructed"]
        \/ \E document \in ComposeDocuments, interval_ms \in {1000, 60000} :
            LET contents == [document |-> document, form |-> form]
            IN  component = [kind |-> "file",
                             target_file |-> contents,
                             treatment_config |->
                                MetricsExportInterval_transform_params(
                                    [compose_file |-> "f", service_name |-> "s",
                                     interval_ms |-> interval_ms], contents),
                             before_inject |-> <<>>,
                             file_pc |-> "constructed"]

\* runner.execute_compile_time_treatments: treatment.inject()
file_inject ==
    /\ file_pc = "constructed"
    /\ LET done == inject_file(treatment_config, target_file)
       IN  component' = [component EXCEPT !.target_file = done.file,
                                           !.treatment_config = done.config,
                                           !.before_inject = <<target_file>>,
                                           !.file_pc = "injected"]
    /\ UNCHANGED not_component_vars

\* runner.clean_compile_time_treatments: treatment.clean()
file_clean ==
    /\ file_pc = "injected"
    /\ LET done == clean_file(treatment_config, target_file)
       IN  component' = [component EXCEPT !.target_file = done.file,
                                           !.treatment_config = done.config,
                                           !.file_pc = "cleaned"]
    /\ UNCHANGED not_component_vars

NextFile ==
    \/ file_inject
    \/ file_clean

FileSpec == InitFile /\ [][NextFile]_vars

\* ==== the duration parser (utils.py 13-42) ====================================
\* the characters of the strings tried: digits, letters of the units, and a
\* letter of no unit
Alphabet == {"0", "1", "3", "m", "s", "u", "x"}

DigitChars == <<"0", "1", "2", "3", "4", "5", "6", "7", "8", "9">>

IsDigit(c) == \E d \in 1..Len(DigitChars) : DigitChars[d] = c

\* the strings handed to the parser
TimeStrings == UNION {[1..n -> Alphabet] : n \in 0..4}

\* the alternation (us|ms|s|m|h|d) of time_string_format_regex, in its order
UnitAlternation == <<<<"u", "s">>, <<"m", "s">>, <<"s">>, <<"m">>, <<"h">>, <<"d">>>>

\* SECONDS_MAP: the seconds of one unit, as <<whole seconds, microseconds>>
SECONDS_MAP(unit) ==
    CASE unit = <<"u", "s">> -> <<0, 1>>
      [] unit = <<"m", "s">> -> <<0, 1000>>
      [] unit = <<"s">> -> <<1, 0>>
      [] unit = <<"m">> -> <<60, 0>>
      [] unit = <<"h">> -> <<3600, 0>>
      [] unit = <<"d">> -> <<86400, 0>>

\* a number of seconds, written <<whole seconds, microseconds below a second>>
Normalised(whole, micro) ==
    <<whole + micro \div MicrosecondsPerSecond, micro % MicrosecondsPerSecond>>

\* float(value) * SECONDS_MAP[unit]
Times(value, unit_seconds) ==
    Normalised(value * unit_seconds[1], value * unit_seconds[2])

\* seconds += ...
Plus(seconds, more) == Normalised(seconds[1] + more[1], seconds[2] + more[2])

\* float(value_part) of a string of digits
RECURSIVE float(_)
float(value_part) ==
    IF value_part = <<>> THEN 0
    ELSE 10 * float(SubSeq(value_part, 1, Len(value_part) - 1))
         + (CHOOSE d \in 1..Len(DigitChars) :
                DigitChars[d] = value_part[Len(value_part)]) - 1

\* the string has the given characters from position at on
LooksAt(string, at, chars) ==
    /\ at + Len(chars) - 1 <= Len(string)
    /\ \A n \in 1..Len(chars) : string[at + n - 1] = chars[n]

\* the end of the run of digits that starts at position at (at - 1 if none)
RECURSIVE digits_end(_, _)
digits_end(string, at) ==
    IF at <= Len(string) /\ IsDigit(string[at])
    THEN digits_end(string, at + 1)
    ELSE at - 1

\* the regex (\d+)(us|ms|s|m|h|d) tried at one position: \d+ takes the whole
\* run of digits (a shorter run is followed by a digit, never by a unit), then
\* the first alternative that fits is taken
match_at(string, at) ==
    LET last == digits_end(string, at)
        fits == {u \in 1..Len(UnitAlternation) :
                    LooksAt(string, last + 1, UnitAlternation[u])}
    IN  IF last < at \/ fits = {}
        THEN [matched |-> FALSE, value_part |-> <<>>, unit_part |-> <<>>,
              end |-> at]
        ELSE LET first == CHOOSE u \in fits : \A w \in fits : u <= w
             IN  [matched |-> TRUE,
                  value_part |-> SubSeq(string, at, last),
                  unit_part |-> UnitAlternation[first],
                  end |-> last + Len(UnitAlternation[first])]

\* re.findall(regex, string): the matches from left to right, each search
\* starting where the match before it ended
RECURSIVE findall(_, _)
findall(string, at) ==
    IF at > Len(string) THEN <<>>
    ELSE LET found == match_at(string, at)
         IN  IF found.matched
             THEN <<found>> \o findall(string, found.end + 1)
             ELSE findall(string, at + 1)

\* utils.validate_time_string: bool(re.match(regex, time_string)); re.match
\* looks at the start of the string only
utils_validate_time_string(string) == match_at(string, 1).matched

\* the sum of the loop of time_string_to_seconds over the matches
RECURSIVE sum_matches(_)
sum_matches(matches) ==
    IF matches = <<>> THEN <<0, 0>>
    ELSE Plus(Times(float(Head(matches).value_part),
                    SECONDS_MAP(Head(matches).unit_part)),
              sum_matches(Tail(matches)))

\* utils.time_string_to_seconds
time_string_to_seconds(string) == sum_matches(findall(string, 1))

\* a string was given; nothing was called yet
InitParse ==
    /\ ComponentOnly
    /\ \E string \in TimeStrings :
            component = [kind |-> "parser",
                         time_string |-> string,
                         validated |-> <<>>,
                         seconds_returned |-> <<>>]

\* validate_time_string(time_string)
parse_validate ==
    /\ component.kind = "parser"
    /\ validated = <<>>
    /\ component' = [component EXCEPT
                        !.validated = <<utils_validate_time_string(time_string)>>]
    /\ UNCHANGED not_component_vars

\* time_string_to_seconds(time_string)
parse_convert ==
    /\ component.kind = "parser"
    /\ seconds_returned = <<>>
    /\ component' = [component EXCEPT
                        !.seconds_returned = <<time_string_to_seconds(time_string)>>]
    /\ UNCHANGED not_component_vars

NextParse ==
    \/ parse_validate
    \/ parse_convert

ParseSpec == InitParse /\ [][NextParse]_vars

\* ==== the observer (observer.py 14-96) ========================================
\* the window strings of the sample specs
WindowStrings == {<<"0", "s">>, <<"1", "s">>, <<"2", "m">>}

\* the names of the sample responses
ObserverNames == {"r1", "r2"}

\* the responses sections the syntactic schema accepts (validation.py 179-185:
\* a list, of any length, of entries whose windows are strings)
ResponseSections ==
    UNION {[1..n -> [name : ObserverNames, left_window : WindowStrings,
                     right_window : WindowStrings]] : n \in 0..MaxResponses}

\* utc_timestamp() at engine.py 120 and 125, in seconds
Timestamps == {10, 20}

\* a number of seconds <<whole, micro>> in microseconds
Micro(seconds) == seconds[1] * MicrosecondsPerSecond + seconds[2]

\* _response_variables[name] = response_variable (observer.py 42, 52): a name
\* the dict holds keeps its place and takes the new value
dict_set(dict, name, value) ==
    IF \E n \in 1..Len(dict) : dict[n].name = name
    THEN [n \in 1..Len(dict) |->
            IF dict[n].name = name THEN [name |-> name] @@ value ELSE dict[n]]
    ELSE Append(dict, [name |-> name] @@ value)

\* the loop of Observer.initialize_variables over the responses; the windows
\* of a variable are set by its constructor (responses.py 39-46, 194-200)
RECURSIVE initialize_loop(_, _, _, _)
initialize_loop(responses, start, end, dict) ==
    IF responses = <<>> THEN dict
    ELSE LET response == Head(responses)
             variable ==
                [start |-> start
                    - Micro(time_string_to_seconds(response.left_window)),
                 end |-> end
                    + Micro(time_string_to_seconds(response.right_window))]
         IN  initialize_loop(Tail(responses), start, end,
                             dict_set(dict, response.name, variable))

\* max(values, key=attrgetter("end")): the first of the values of largest end
max_by_end(values) ==
    values[CHOOSE n \in 1..Len(values) :
                /\ \A q \in 1..Len(values) : values[q].end <= values[n].end
                /\ \A q \in 1..(n - 1) : values[q].end < values[n].end]

\* Observer.time_to_wait_right of an observer; max() of no value raises
Observer_time_to_wait_right(observer) ==
    IF observer.response_variables = <<>>
    THEN [raised |-> "ValueError", value |-> 0]
    ELSE [raised |-> "",
          value |-> max_by_end(observer.response_variables).end
                        - observer.experiment_end]

\* the loop of Observer.time_to_wait_left
RECURSIVE max_left_loop(_, _)
max_left_loop(responses, max_left_window) ==
    IF responses = <<>> THEN max_left_window
    ELSE LET in_seconds ==
                Micro(time_string_to_seconds(Head(responses).left_window))
         IN  max_left_loop(Tail(responses),
                           IF in_seconds > max_left_window
                           THEN in_seconds ELSE max_left_window)

\* faulty variant of time_to_wait_left: read off the variables' windows
Observer_time_to_wait_left_of_variables(observer) ==
    Max({0} \cup {observer.experiment_start - observer.response_variables[n].start
                    : n \in 1..Len(observer.response_variables)})

\* Observer.time_to_wait_left of an observer
Observer_time_to_wait_left(observer) == max_left_loop(observer.responses, 0)

\* Observer(config=self.config) (runner.py 87)
InitObserver ==
    /\ ComponentOnly
    /\ \E responses \in ResponseSections :
            component = [kind |-> "observer",
                         responses |-> responses,
                         experiment_start |-> None,
                         experiment_end |-> None,
                         response_variables |-> <<>>,
                         initialized |-> FALSE,
                         ttw_left |-> <<>>,
                         ttw_right |-> <<>>]

\* engine.py 120-122: observer.experiment_start = utc_timestamp()
observer_set_experiment_start ==
    /\ component.kind = "observer"
    /\ observer_experiment_start = None
    /\ \E t \in Timestamps :
            component' = [component EXCEPT
                            !.experiment_start = t * MicrosecondsPerSecond]
    /\ UNCHANGED not_component_vars

\* engine.py 125-126: observer.experiment_end = utc_timestamp()
observer_set_experiment_end ==
    /\ component.kind = "observer"
    /\ observer_experiment_start # None
    /\ observer_experiment_end = None
    /\ \E t \in Timestamps :
            /\ t * MicrosecondsPerSecond >= observer_experiment_start
            /\ component' = [component EXCEPT
                                !.experiment_end = t * MicrosecondsPerSecond]
    /\ UNCHANGED not_component_vars

\* runner.py 211: observer.initialize_variables()
observer_initialize_variables ==
    /\ component.kind = "observer"
    /\ observer_experiment_end # None
    /\ component' = [component EXCEPT
            !.response_variables =
                initialize_loop(observer_responses, observer_experiment_start,
                                observer_experiment_end, @),
            !.initialized = TRUE]
    /\ UNCHANGED not_component_vars

\* runner.py 199: observer.time_to_wait_left()
observer_time_to_wait_left ==
    /\ component.kind = "observer"
    /\ component' = [component EXCEPT !.ttw_left =
            <<[value |-> Observer_time_to_wait_left(component),
               experiment_start |-> observer_experiment_start,
               variables |-> Len(_response_variables)]>>]
    /\ UNCHANGED not_component_vars

\* runner.py 212: observer.time_to_wait_right(), after initialize_variables
observer_time_to_wait_right ==
    /\ component.kind = "observer"
    /\ component.initialized
    /\ component' = [component EXCEPT !.ttw_right =
            <<Observer_time_to_wait_right(component)
                @@ [variables |-> Len(_response_variables)]>>]
    /\ UNCHANGED not_component_vars

NextObserver ==
    \/ observer_set_experiment_start
    \/ observer_set_experiment_end
    \/ observer_initialize_variables
    \/ observer_time_to_wait_left
    \/ observer_time_to_wait_right

ObserverSpec == InitObserver /\ [][NextObserver]_vars

\* ==== the load shape (loadgen.py 71-87) =======================================
\* the number of stages of the sample specs
MaxStages == 2

\* the stages sections that build a shape: `if self.stages` (loadgen.py 53)
StageLists ==
    UNION {[1..n -> [duration : {1, 2, 3}, users : {1, 2}, spawn_rate : {1, 2}]]
                : n \in 1..MaxStages}

\* the values of get_run_time(), in seconds
RunTimes == 0..(3 * MaxStages + 1)

\* the loop of CustomLoadTestShape.tick: the first stage with
\* run_time < stage["duration"]; falling off the loop returns None
RECURSIVE tick_loop(_, _)
tick_loop(stage_list, run_time) ==
    IF stage_list = <<>> THEN [returned |-> "None", users |-> 0, spawn_rate |-> 0]
    ELSE IF run_time < Head(stage_list).duration
         THEN [returned |-> "tuple", users |-> Head(stage_list).users,
               spawn_rate |-> Head(stage_list).spawn_rate]
         ELSE tick_loop(Tail(stage_list), run_time)

\* CustomLoadTestShape(stages=self.stages)
InitShape ==
    /\ ComponentOnly
    /\ \E stage_list \in StageLists :
            component = [kind |-> "shape", stages |-> stage_list, ticked |-> <<>>]

\* tick(), called by the runner of locust at some run time
tick ==
    /\ component.kind = "shape"
    /\ \E run_time \in RunTimes :
            component' = [component EXCEPT !.ticked =
                <<[run_time |-> run_time] @@ tick_loop(stages, run_time)>>]
    /\ UNCHANGED not_component_vars

NextShape == tick

ShapeSpec == InitShape /\ [][NextShape]_vars

\* ==== the queries of the store (store.py 138-163) =============================
\* experiment names, the second starting with the first; run ids; response
\* names, the second holding the first
ExperimentNames == {<<97>>, <<97, 98>>}

RunNames == {<<97>>, <<98>>}

VariableNames == {<<98>>, <<98, 98>>}

\* Python's `a in b` on two str
contains(b, a) ==
    \E n \in 0..(Len(b) - Len(a)) : SubSeq(b, n + 1, n + Len(a)) = a

\* [x for x in list if test]
RECURSIVE filter_in(_, _)
filter_in(list, response_variable) ==
    IF list = <<>> THEN <<>>
    ELSE (IF contains(Head(list), response_variable)
          THEN <<Head(list)>> ELSE <<>>)
         \o filter_in(Tail(list), response_variable)

\* store.consolidate_runs: the keys of the frames handed to pd.concat, in
\* their order, or None with no frame.  Every key the trie holds has its
\* frame in the store here, so get_dataframe(result) returns it.
consolidate_runs(trie, experiment_key, response_variable) ==
    LET results == filter_in(query(trie, experiment_key).result,
                             response_variable)
    IN  IF results # <<>>
        THEN [outcome |-> "DataFrame", result |-> results]
        ELSE [outcome |-> "None", result |-> <<>>]

\* store.list_keys_for_experiment
list_keys_for_experiment(trie, experiment_key) ==
    query(trie, experiment_key).result

\* store.list_keys_for_run: the two keys are joined as they are
list_keys_for_run(trie, experiment_key, experiment_run) ==
    query(trie, experiment_key \o experiment_run).result

\* nothing was written yet
InitCatalog ==
    /\ ComponentOnly
    /\ component = [kind |-> "catalog", root |-> EmptyTrie, hdf |-> {},
                    writes |-> 0, asked |-> <<>>]

\* store.write_dataframe(dataframe, e, r, v) (store.py 108-114)
catalog_write_dataframe ==
    /\ component.kind = "catalog"
    /\ component.writes < MaxInserts
    /\ \E e \in ExperimentNames, r \in RunNames, v \in VariableNames :
            component' = [component EXCEPT
                !.hdf = @ \cup {construct_key(e, r, v)},
                !.root = insert(@, construct_key(e, r, v)),
                !.writes = @ + 1,
                !.asked = <<>>]
    /\ UNCHANGED not_component_vars

\* consolidate_runs(experiment_key, response_variable)
catalog_consolidate_runs ==
    /\ component.kind = "catalog"
    /\ \E e \in ExperimentNames, v \in VariableNames :
            component' = [component EXCEPT !.asked =
                <<[call |-> "consolidate_runs", experiment_key |-> e,
                   second |-> v]
                  @@ consolidate_runs(catalog_root, e, v)>>]
    /\ UNCHANGED not_component_vars

\* list_keys_for_experiment(experiment_key)
catalog_list_keys_for_experiment ==
    /\ component.kind = "catalog"
    /\ \E e \in ExperimentNames :
            component' = [component EXCEPT !.asked =
                <<[call |-> "list_keys_for_experiment", experiment_key |-> e,
                   second |-> <<>>, outcome |-> "list",
                   result |-> list_keys_for_experiment(catalog_root, e)]>>]
    /\ UNCHANGED not_component_vars

\* list_keys_for_run(experiment_key, experiment_run)
catalog_list_keys_for_run ==
    /\ component.kind = "catalog"
    /\ \E e \in ExperimentNames, r \in RunNames :
            component' = [component EXCEPT !.asked =
                <<[call |-> "list_keys_for_run", experiment_key |-> e,
                   second |-> r, outcome |-> "list",
                   result |-> list_keys_for_run(catalog_root, e, r)]>>]
    /\ UNCHANGED not_component_vars

NextCatalog ==
    \/ catalog_write_dataframe
    \/ catalog_consolidate_runs
    \/ catalog_list_keys_for_experiment
    \/ catalog_list_keys_for_run

CatalogSpec == InitCatalog /\ [][NextCatalog]_vars

\* ==== the test of one interaction (report.py 29-81) ===========================
\* the labels a labelled frame has in the column of a treatment
\* (responses.py 93, 259): the treatment's name inside its interval,
\* "NoTreatment" outside
LabelColumns(treatment_name) ==
    UNION {[1..n -> {"NoTreatment", treatment_name}] : n \in 0..4}

\* a labelled response: a trace frame has the column "duration"
\* (responses.py 281), a metric frame a column named by the metric
\* (responses.py 135, 171); the values are the numbers of the rows
TestedResponse(response_type, treatment_name, labels) ==
    [response_type |-> response_type,
     metric_name |-> IF response_type = "metric" THEN "m1" ELSE "",
     data |-> [c \in {IF response_type = "metric" THEN "m1" ELSE "duration",
                      treatment_name} |->
                IF c = treatment_name THEN labels
                ELSE [n \in 1..Len(labels) |-> n]]]

\* dataframe.loc[mask][value_column]: the values of the rows the mask keeps
RECURSIVE loc(_, _, _)
loc(mask, values, n) ==
    IF n > Len(values) THEN <<>>
    ELSE (IF mask[n] THEN <<values[n]>> ELSE <<>>) \o loc(mask, values, n + 1)

\* Reporter.compute_welch_ttest up to the call of ttest_ind: the two samples,
\* in the order they are passed
welch_samples(dataframe, label_value, label_column, value_column) ==
    LET control == loc([n \in 1..Len(dataframe[label_column]) |->
                            dataframe[label_column][n] # label_value],
                       dataframe[value_column], 1)
        experiment == loc([n \in 1..Len(dataframe[label_column]) |->
                            dataframe[label_column][n] = label_value],
                          dataframe[value_column], 1)
    IN  [first |-> control, second |-> experiment]

\* the value column chosen by gather_interaction (report.py 61-65)
value_column_of(response) ==
    IF response.response_type = "trace" THEN "duration"
    ELSE response.metric_name

\* a treatment and a response that was observed and labelled
InitTest ==
    /\ ComponentOnly
    /\ \E treatment_name \in {"t1", "t2"}, response_type \in {"trace", "metric"} :
        \E labels \in LabelColumns(treatment_name) :
            component = [kind |-> "ttest",
                         treatment |-> treatment_name,
                         response |-> TestedResponse(response_type,
                                            treatment_name, labels),
                         value_column |-> "",
                         ttest_ind |-> <<>>]

\* gather_interaction, report.py 61-65: the value column
test_gather_interaction ==
    /\ component.kind = "ttest"
    /\ component.value_column = ""
    /\ component' = [component EXCEPT
                        !.value_column = value_column_of(tested_response)]
    /\ UNCHANGED not_component_vars

\* gather_interaction, report.py 76-81: compute_welch_ttest(response.data,
\* "NoTreatment", treatment.name, value_column)
test_compute_welch_ttest ==
    /\ component.kind = "ttest"
    /\ component.value_column # ""
    /\ ttest_ind = <<>>
    /\ component' = [component EXCEPT !.ttest_ind =
            <<welch_samples(tested_response.data, "NoTreatment",
                            tested_treatment, component.value_column)>>]
    /\ UNCHANGED not_component_vars

NextTest ==
    \/ test_gather_interaction
    \/ test_compute_welch_ttest

TestSpec == InitTest /\ [][NextTest]_vars

\* ==== the timestamps of the runtime treatments (runner.py 191-208) ============
\* the responses sections of the sample specs: left windows of all lengths
IntervalSections ==
    {section \in ResponseSections :
        \A n \in 1..Len(section) :
            /\ section[n].name = "r1"
            /\ section[n].right_window = <<"0", "s">>}

\* the time a step takes beyond what it has to take, in microseconds
Delays == {0, MicrosecondsPerSecond}

\* engine.py 117-119: the load generator was started
InitInterval ==
    /\ ComponentOnly
    /\ \E section \in IntervalSections, n \in 0..MaxTreatments :
            component = [kind |-> "interval",
                         responses |-> section,
                         runtime_treatments |->
                            [t \in 1..n |-> [start |-> None, end |-> None]],
                         clock |-> 10 * MicrosecondsPerSecond,
                         experiment_start |-> None,
                         experiment_end |-> None,
                         interval_index |-> 1,
                         interval_pc |-> "experiment_start"]

\* engine.py 120-122: experiment_start = utc_timestamp()
interval_set_experiment_start ==
    /\ component.kind = "interval"
    /\ interval_pc = "experiment_start"
    /\ component' = [component EXCEPT !.experiment_start = clock,
                                       !.interval_pc = "sleep"]
    /\ UNCHANGED not_component_vars

\* faulty variant of interval_sleep: the left window is not waited for
interval_sleep_skipped ==
    /\ component.kind = "interval"
    /\ interval_pc = "sleep"
    /\ \E delay \in Delays :
            component' = [component EXCEPT !.clock = @ + delay,
                                           !.interval_pc = "start"]
    /\ UNCHANGED not_component_vars

\* runner.py 199-201: time.sleep(observer.time_to_wait_left()), which returns
\* after that time or later
interval_sleep ==
    /\ component.kind = "interval"
    /\ interval_pc = "sleep"
    /\ \E delay \in Delays :
            component' = [component EXCEPT
                !.clock = @ + Observer_time_to_wait_left(component) + delay,
                !.interval_pc = "start"]
    /\ UNCHANGED not_component_vars

\* runner.py 203-204: treatment.start = utc_timestamp(), for the next runtime
\* treatment; after the last one the loop is left
interval_treatment_start ==
    /\ component.kind = "interval"
    /\ interval_pc = "start"
    /\ IF interval_index > Len(runtime_treatments)
       THEN component' = [component EXCEPT !.interval_pc = "experiment_end"]
       ELSE component' = [component EXCEPT
                !.runtime_treatments[interval_index].start = clock,
                !.interval_pc = "inject"]
    /\ UNCHANGED not_component_vars

\* runner.py 205-206: treatment.inject() and treatment.clean() take their time
interval_inject_clean ==
    /\ component.kind = "interval"
    /\ interval_pc = "inject"
    /\ \E delay \in Delays :
            component' = [component EXCEPT !.clock = @ + delay,
                                           !.interval_pc = "end"]
    /\ UNCHANGED not_component_vars

\* runner.py 207: treatment.end = utc_timestamp()
interval_treatment_end ==
    /\ component.kind = "interval"
    /\ interval_pc = "end"
    /\ component' = [component EXCEPT
            !.runtime_treatments[interval_index].end = clock,
            !.interval_index = @ + 1,
            !.interval_pc = "start"]
    /\ UNCHANGED not_component_vars

\* engine.py 124-126: clean_compile_time_treatments() takes its time, then
\* experiment_end = utc_timestamp()
interval_set_experiment_end ==
    /\ component.kind = "interval"
    /\ interval_pc = "experiment_end"
    /\ \E delay \in Delays :
            component' = [component EXCEPT !.clock = @ + delay,
                                           !.experiment_end = clock + delay,
                                           !.interval_pc = "observe"]
    /\ UNCHANGED not_component_vars

NextInterval ==
    \/ interval_set_experiment_start
    \/ interval_sleep
    \/ interval_treatment_start
    \/ interval_inject_clean
    \/ interval_treatment_end
    \/ interval_set_experiment_end

IntervalSpec == InitInterval /\ [][NextInterval]_vars

\* ==== the iterations of Engine.run (engine.py 70-169) =========================
\* Engine.run(runs=...) of the runs modelled
LoopTimes == {1, 2, 3}

\* the treatments of the sample specs: TRUE for a runtime treatment, FALSE
\* for a compile-time treatment
LoopTreatments == UNION {[1..n -> BOOLEAN] : n \in 0..MaxTreatments}

\* a call made by iteration idx of the loop
Call(name, at) == [name |-> name, idx |-> at]

\* ExperimentRunner.__init__ (runner.py 61-102): _build_treatments constructs
\* every treatment anew; Treatment.__init__ leaves start and end at None
ExperimentRunner__init__(described) ==
    [treatments |-> [t \in 1..Len(described) |->
                        [is_runtime |-> described[t], start |-> None,
                         end |-> None]]]

\* treatment.start / treatment.end = utc_timestamp() for the treatments of
\* one kind (runner.py 182, 188, 204, 207)
stamp(runner, runtime, field, timestamp) ==
    [runner EXCEPT !.treatments =
        [t \in 1..Len(runner.treatments) |->
            IF runner.treatments[t].is_runtime = runtime
            THEN [runner.treatments[t] EXCEPT ![field] = timestamp]
            ELSE runner.treatments[t]]]

\* Engine.__init__ (engine.py 25-47) and the call of Engine.run
InitLoop ==
    /\ ComponentOnly
    /\ \E runs_given \in LoopTimes, described \in LoopTreatments :
            component = [kind |-> "loop",
                         runs |-> runs_given,
                         described |-> described,
                         idx |-> 0,
                         runner |-> [treatments |-> <<>>],
                         sue_running |-> FALSE,
                         loadgen_running |-> FALSE,
                         calls |-> <<>>,
                         exc |-> "none",
                         loop_pc |-> "for"]

\* engine.py 80 and 167-169: the next idx of range(runs), or the end of run()
loop_for ==
    /\ component.kind = "loop"
    /\ loop_pc = "for"
    /\ component' = [component EXCEPT !.loop_pc =
            IF component.idx < component.runs THEN "new_runner" ELSE "returned"]
    /\ UNCHANGED not_component_vars

\* engine.py 82-99: a new orchestrator, a new generator and a new runner
loop_new_runner ==
    /\ component.kind = "loop"
    /\ loop_pc = "new_runner"
    /\ component' = [component EXCEPT
            !.runner = ExperimentRunner__init__(component.described),
            !.calls = Append(@, Call("ExperimentRunner", component.idx)),
            !.loop_pc = "execute_compile_time_treatments"]
    /\ UNCHANGED not_component_vars

\* engine.py 100: runner.execute_compile_time_treatments()
loop_execute_compile_time_treatments ==
    /\ component.kind = "loop"
    /\ loop_pc = "execute_compile_time_treatments"
    /\ component' = [component EXCEPT
            !.runner = stamp(@, FALSE, "start", 1),
            !.calls = Append(@, Call("execute_compile_time_treatments",
                                     component.idx)),
            !.loop_pc = "orchestrate"]
    /\ UNCHANGED not_component_vars

\* engine.py 101: orchestrator.orchestrate()
loop_orchestrate ==
    /\ component.kind = "loop"
    /\ loop_pc = "orchestrate"
    /\ component' = [component EXCEPT
            !.calls = Append(@, Call("orchestrate", component.idx)),
            !.loop_pc = "ready"]
    /\ UNCHANGED not_component_vars

\* engine.py 102-110: ready() is true and sue_running is set, or the
\* compile-time treatments are cleaned, the sue is torn down and
\* OrchestrationException is raised
loop_ready ==
    /\ component.kind = "loop"
    /\ loop_pc = "ready"
    /\ \E is_ready \in BOOLEAN :
        IF is_ready
        THEN component' = [component EXCEPT !.sue_running = TRUE,
                                            !.loop_pc = "preconditions"]
        ELSE component' = [component EXCEPT
                !.runner = stamp(@, FALSE, "end", 2),
                !.calls = Append(@, Call("teardown", component.idx)),
                !.exc = "OrchestrationException",
                !.loop_pc = "raised"]
    /\ UNCHANGED not_component_vars

\* engine.py 111-116: the preconditions of every treatment hold, or
\* OxnException is raised
loop_preconditions ==
    /\ component.kind = "loop"
    /\ loop_pc = "preconditions"
    /\ \E holds \in {TRUE, component.described = <<>>} :
        IF holds
        THEN component' = [component EXCEPT !.loop_pc = "generator_start"]
        ELSE component' = [component EXCEPT !.exc = "OxnException",
                                            !.loop_pc = "raised"]
    /\ UNCHANGED not_component_vars

\* engine.py 117-119: generator.start(); loadgen_running = True
loop_generator_start ==
    /\ component.kind = "loop"
    /\ loop_pc = "generator_start"
    /\ component' = [component EXCEPT
            !.calls = Append(@, Call("generator.start", component.idx)),
            !.loadgen_running = TRUE,
            !.loop_pc = "execute_runtime_treatments"]
    /\ UNCHANGED not_component_vars

\* engine.py 120-127: the runtime treatments are executed, the compile-time
\* treatments cleaned and the response variables observed
loop_experiment ==
    /\ component.kind = "loop"
    /\ loop_pc = "execute_runtime_treatments"
    /\ component' = [component EXCEPT
            !.runner = stamp(stamp(stamp(@, TRUE, "start", 2), TRUE, "end", 3),
                             FALSE, "end", 4),
            !.loop_pc = "generator_stop"]
    /\ UNCHANGED not_component_vars

\* engine.py 128-129: generator.stop(); loadgen_running = False
loop_generator_stop ==
    /\ component.kind = "loop"
    /\ loop_pc = "generator_stop"
    /\ component' = [component EXCEPT
            !.calls = Append(@, Call("generator.stop", component.idx)),
            !.loadgen_running = FALSE,
            !.loop_pc = "teardown"]
    /\ UNCHANGED not_component_vars

\* faulty variant of loop_teardown: the sue is left up at the end of a run
loop_teardown_skipped ==
    /\ component.kind = "loop"
    /\ loop_pc = "teardown"
    /\ component' = [component EXCEPT !.idx = @ + 1, !.loop_pc = "for"]
    /\ UNCHANGED not_component_vars

\* engine.py 131-166: the frames are written and reported, then
\* orchestrator.teardown(); sue_running = False
loop_teardown ==
    /\ component.kind = "loop"
    /\ loop_pc = "teardown"
    /\ component' = [component EXCEPT
            !.calls = Append(@, Call("teardown", component.idx)),
            !.sue_running = FALSE,
            !.idx = @ + 1,
            !.loop_pc = "for"]
    /\ UNCHANGED not_component_vars

NextLoop ==
    \/ loop_for
    \/ loop_new_runner
    \/ loop_execute_compile_time_treatments
    \/ loop_orchestrate
    \/ loop_ready
    \/ loop_preconditions
    \/ loop_generator_start
    \/ loop_experiment
    \/ loop_generator_stop
    \/ loop_teardown

LoopSpec == InitLoop /\ [][NextLoop]_vars

\* ==== claims ====================================================================
\* positions of the treatment map by the kind's classification
Runtime == {t \in 1..Len(treatments) : is_runtime(treatments[t].kind)}

CompileTime == {t \in 1..Len(treatments) : ~is_runtime(treatments[t].kind)}

\* the process has finished its cleanup
Exited == pc = "exited"

\* C1: when the process has finished its cleanup, every treatment whose
\* inject() was invoked has had clean() invoked exactly once.
C1_InjectedCleanedExactlyOnce ==
    Exited =>
        \A t \in 1..Len(treatments) :
            treatments[t].injects > 0 => treatments[t].cleans = 1

\* C2: once orchestrate() is invoked, inject() of every compile time treatment
\* has returned, and it returned before the invocation; no inject of a compile
\* time treatment comes after it.
C2_CompileTimeInjectedBeforeOrchestrate ==
    LET invoked == Pos("orchestrate", 0) IN
        invoked # 0 =>
            \A t \in CompileTime :
                LET inject == Ev("inject", t)
                    injected == Ev("injected", t)
                IN  /\ \E k \in 1..(invoked - 1) : log[k] = injected
                    /\ \A k \in invoked..Len(log) :
                            log[k] # inject /\ log[k] # injected

\* C2 witness: orchestrate() was invoked in a run that has a compile time treatment
C2_Witness ==
    /\ Logged("orchestrate", 0)
    /\ CompileTime # {}

\* the runtime treatments in map order
RuntimeOrder ==
    SelectSeq([t \in 1..Len(treatments) |-> t],
              LAMBDA t : is_runtime(treatments[t].kind))

\* the events the loop of execute_runtime_treatments logs
Steps == {"start", "inject", "cleaned", "end"}

\* the part of the log made by the loop of execute_runtime_treatments:
\* start recorded, inject invoked, clean returned, end recorded
RuntimeEvents ==
    SelectSeq(log, LAMBDA e : /\ e[1] \in Steps
                              /\ is_runtime(treatments[e[2]].kind))

StepNames == <<"start", "inject", "cleaned", "end">>

C4_CompileTimeCleanAfterTeardown ==
    (Exited /\ Logged("orchestrate", 0)) =>
        \A t \in CompileTime :
            /\ Logged("teardown", 0)
            /\ Logged("clean", t)
            /\ Pos("teardown", 0) < Pos("clean", t)

\* C5: once orchestrate() has returned, if a later step of Engine.run raises,
\* the process ends with the SUE torn down (no container left) and, if the
\* load generator was started, with the load generator killed or finished.
C5_ErrorTriggersCleanupChain ==
    (Exited /\ Logged("orchestrated", 0)
            /\ exc \notin {"none", "KeyboardInterrupt"}) =>
        /\ \A s \in Services : status[s] = "absent"
        /\ generator \in {"created", "killed", "finished"}

\* C6: when ready(timeout) has returned true, every container of the
\* effective service set is in state "running".
C6_ReadyImpliesRunning ==
    (pc = "sue_running") =>
        \A s \in sue_service_names : status[s] = "running"

\* C7: if ready() returned after it gave up on a container that was not
\* running when the timeout was used up (and no ctrl-c came), the run ends with
\* the compile time treatments cleaned, teardown() invoked and
\* OrchestrationException raised, without any precondition check, load
\* generation or runtime treatment.
C7_TimeoutAbortsRun ==
    (Exited /\ exc # "KeyboardInterrupt"
            /\ (Logged("ready", 1) \/ Logged("ready", 0))
            /\ \E s \in Services : Logged("ready_timeout", s)) =>
        /\ exc = "OrchestrationException"
        /\ Logged("teardown", 0)
        /\ \A t \in CompileTime : treatments[t].cleans = 1
        /\ ~Logged("preconditions", 0) /\ ~Logged("preconditions", 1)
        /\ ~Logged("generator.start", 0)
        /\ \A t \in Runtime : treatments[t].injects = 0

\* C8: once preconditions() of a treatment has returned false, the run is
\* aborted with OxnException; generator.start() is never invoked,
\* experiment_start is never recorded and no runtime treatment is injected.
C8_PreconditionFailureAbortsBeforeLoad ==
    Logged("preconditions", 0) =>
        /\ pc \in {"finally", "exited"}
        /\ exc = "OxnException"
        /\ ~Logged("generator.start", 0)
        /\ generator = "created"
        /\ experiment_start = None
        /\ \A t \in Runtime : treatments[t].injects = 0

\* C8 witness: a run ended after a precondition returned false
C8_Witness ==
    /\ Exited
    /\ Logged("preconditions", 0)

\* inject() of t was invoked and failed: it raised, or logged a docker error
InjectFailed(t) ==
    /\ Logged("inject", t)
    /\ ~Logged("injected", t) \/ Logged("inject_failed", t)

\* C9: when inject() of a runtime treatment has failed and no ctrl-c came, the
\* run continues: the controller is about to clean that treatment or has
\* cleaned it.
C9_InjectFailureContinues ==
    \A t \in Runtime :
        (InjectFailed(t) /\ exc # "KeyboardInterrupt") =>
            \/ pc = "runtime_clean" /\ i = t
            \/ Logged("clean", t)

\* C10: when observe() of a variable has failed in a run that has a treatment
\* to label with, and no ctrl-c came, the run ends without raising, torn down,
\* with every other variable stored.
C10_ObserveFailureDoesNotAbort ==
    (Exited /\ exc # "KeyboardInterrupt" /\ Len(treatments) > 0
            /\ \E r \in 1..Len(data) : Logged("observe_failed", r)) =>
        /\ exc = "none"
        /\ Logged("teardown", 0)
        /\ \A r \in 1..Len(data) : ~Logged("observe_failed", r) => r \in stored

\* the timestamp of row r of variable v, in the variable's native unit
NativeTimestamp(v, r) ==
    IF frames[v].type = "metric" THEN frames[v].data["timestamp"][r]
    ELSE frames[v].data["start_time"][r]

\* seconds in the native unit of variable v
InNativeUnit(v, seconds) ==
    IF frames[v].type = "metric" THEN seconds ELSE seconds * 1000000

\* label() of variable v has been called for the k-th treatment
LabelDone(k, v) == label_step >= (k - 1) * Len(frames) + v

C12_LoadSpansExperiment ==
    /\ experiment_start # None => generator # "created"
    /\ (experiment_end # None /\ quit_at # None) => quit_at >= experiment_end

\* the largest right_window over the spec's responses
MaxRightWindow ==
    Max({schedule.responses[r].right_window : r \in 1..Len(schedule.responses)})

C15_WindowContainsExperiment ==
    \A r \in 1..Len(variables) :
        /\ variables[r].start = experiment_start - schedule.responses[r].left_window
        /\ variables[r].end = experiment_end + schedule.responses[r].right_window
        /\ variables[r].start <= experiment_start
        /\ experiment_start <= experiment_end
        /\ experiment_end <= variables[r].end

\* C15 witness: a variable with both windows positive was built
C15_Witness ==
    /\ variables # <<>>
    /\ schedule.responses[1].left_window > 0
    /\ schedule.responses[1].right_window > schedule.responses[1].left_window

\* runner._label is about to call label(), or has called it
LabelingStarted ==
    \/ pc = "label" /\ Len(treatments) > 0
    \/ \E r \in 1..Len(data) : data[r] = "labeled"

\* C14: labeling starts only after observe() was attempted for every response
\* variable and every treatment of the map has its start and its end set.
C14_LabelAfterObserveAndIntervals ==
    LabelingStarted =>
        /\ \A r \in 1..Len(data) : Logged("observe", r)
        /\ \A t \in 1..Len(treatments) :
                treatments[t].start # None /\ treatments[t].end # None

\* C14 witness: two variables were labeled with a compile time and a runtime
\* treatment
C14_Witness ==
    /\ Logged("labeled", 0)
    /\ Len(data) = 2
    /\ CompileTime # {} /\ Runtime # {}

\* C16: in a run that has recorded both timestamps,
\* experiment_start < experiment_end.
C16_StartStrictlyBeforeEnd ==
    (experiment_start # None /\ experiment_end # None) =>
        experiment_start < experiment_end

\* C17: the orchestrator's effective service set is (services - exclude),
\* intersected with include when include is not empty; no excluded service is
\* in it and every included, not excluded service is.
C17_EffectiveServiceSet ==
    pc \in {"new_runner", "orchestrate", "sue_running"} =>
        /\ sue_service_names =
                IF spec.include # {}
                THEN (Services \ spec.exclude) \cap spec.include
                ELSE Services \ spec.exclude
        /\ sue_service_names \cap spec.exclude = {}
        /\ (spec.include \ spec.exclude) \subseteq sue_service_names

\* C17 witness: the set was built from an include and an exclude list that
\* overlap
C17_Witness ==
    /\ pc = "new_runner"
    /\ spec.include = Services
    /\ spec.exclude # {} /\ spec.exclude # Services

\* str.startswith: p is a prefix of k
IsPrefix(p, k) == Len(p) <= Len(k) /\ SubSeq(k, 1, Len(p)) = p

\* the elements of a list
Elements(list) == {list[n] : n \in 1..Len(list)}

C20_MissingKeyReturnsNone ==
    (got # <<>> /\ got[1].key \notin DOMAIN hdf) =>
        /\ got[1].outcome = "returned"
        /\ got[1].value = None

\* C21: in every state reached by write_dataframe and remove_dataframe the
\* trie and the table store are consistent: the keys the trie returns are the
\* keys the store holds.
C21_TrieMatchesStore ==
    Elements(query(root, <<>>).result) = DOMAIN hdf

\* C22: the validation of a treatment's parameters never raises for a
\* missing or mistyped field: a constructor either returns or raises
\* OxnException with the accumulated messages, and whenever a message was
\* accumulated the validation returned false.
C22_ValidationAccumulatesNeverRaises ==
    \A c \in 1..Len(constructed) :
        /\ constructed[c].raises \in {"none", "OxnException"}
        /\ constructed[c].raises = "OxnException" => constructed[c].explained
        /\ constructed[c].messages # <<>> =>
                constructed[c].raises = "OxnException"

\* C23: a treatment whose parameters fail validation raises at construction,
\* is not in the runner's treatment map and is never transformed, injected or
\* cleaned: every treatment of the map, hence every treatment injected, was
\* validated and transformed.
C23_InvalidTreatmentNeverInMap ==
    /\ \A t \in 1..Len(runner_treatments) :
            /\ runner_treatments[t].validated
            /\ runner_treatments[t].transformed
    /\ \A c \in 1..Len(constructed) :
            (constructed[c].raises # "none" /\ constructed[c].run = run_index)
                => /\ build_pc = "raised"
                   /\ \A t \in 1..Len(runner_treatments) :
                        runner_treatments[t].name # constructed[c].name

\* C23 witness: the second treatment of a section failed its validation after
\* the first one was built
C23_Witness ==
    /\ build_pc = "raised"
    /\ build_exc = "OxnException"
    /\ Len(constructed) = 2
    /\ constructed[2].explained
    /\ Len(runner_treatments) = 1

\* the file a treatment of the map rewrites in inject and clean
HasFile(t) == "otelcol_extras" \in DOMAIN runner_treatments[t].config

\* C27: no runner is built with two treatments that write the same file.
C27_OneTreatmentPerFile ==
    \A a \in 1..Len(runner_treatments) : \A b \in 1..Len(runner_treatments) :
        (a # b /\ HasFile(a) /\ HasFile(b)) =>
            runner_treatments[a].config["otelcol_extras"]
                # runner_treatments[b].config["otelcol_extras"]

\* C28: the spec held by the engine is, in every state of a run, the spec
\* that was loaded: same treatments, same order, same params.
C28_SpecImmutable == runner_config = loaded

\* C30: a spec without a treatments section is run without an exception.
C30_TreatmentsOptional ==
    ~loaded.has_treatments => build_pc # "raised"

\* C29: the exit status is 0 when every iteration of the run completed, 1
\* when the spec could not be loaded or validated, and not 0 whenever
\* Engine.run ended with an error.
C29_ExitStatus ==
    Exited =>
        /\ (exc = "none" /\ idx = runs) => exit_code = 0
        /\ (exc = "none" /\ idx < runs) => exit_code = 1
        /\ exc \notin {"none", "KeyboardInterrupt"} => exit_code \notin {0, None}

\* the (treatment, response) pairs of a run, as report entries
PairsOf(run) ==
    {[treatment_name |-> treatment_names[t],
      response_name |-> ResponseNames[r],
      store_key |-> <<run, ResponseNames[r]>>] :
        t \in 1..Len(treatment_names), r \in 1..Len(observer_variables[run])}

\* the entries of a run's section of the report
Entries(section) == {section[n] : n \in DOMAIN section}

\* C24: in the report that was written, the section of every run holds
\* exactly one interaction per (treatment, response) pair of that run: none
\* of another run and none twice.
C24_OneInteractionPerPair ==
    report_file # <<>> =>
        \A run \in DOMAIN report_file[1] :
            /\ Entries(report_file[1][run]) = PairsOf(run)
            /\ Cardinality(DOMAIN report_file[1][run])
                    = Cardinality(PairsOf(run))

\* C25: when a pair could not be tested because the response's frame has no
\* label or value column, the process still ends with the sue of every run
\* torn down, the report written, and every pair of a frame that has the
\* columns gathered.
C25_FailedPairDoesNotStopReport ==
    (report_pc = "exited"
        /\ \E run \in 1..short_id :
             \E r \in 1..Len(observer_variables[run]) :
                /\ observer_variables[run][r] = "no_columns"
                /\ treatment_names # <<>>)
    => /\ report_file # <<>>
       /\ \A run \in 1..times : \E n \in 1..Len(teardowns) : teardowns[n] = run
       /\ \A run \in 1..times :
            \A r \in 1..Len(observer_variables[run]) :
               \A t \in 1..Len(treatment_names) :
                  observer_variables[run][r] = "labelled" =>
                    \E n \in 1..Len(reporter_interactions) :
                        reporter_interactions[n] =
                            [treatment_name |-> treatment_names[t],
                             response_name |-> ResponseNames[r],
                             store_key |-> <<run, ResponseNames[r]>>]

\* C26: after inject() and then clean() of a compile-time treatment that
\* rewrites a file, the file holds the same bytes as before inject.
C26_InjectCleanRestoresFile ==
    file_pc = "cleaned" => target_file = before_inject[1]

\* C31: when main() ends after a keyboard interrupt that arrived during
\* Engine.run, the load generator is not running any more if it was started,
\* no container of the sue exists if orchestrate() was invoked, and every
\* frame that was written to the store is still there.
C31_InterruptStopsLoadAndSue ==
    (Exited /\ exc = "KeyboardInterrupt") =>
        /\ generator # "running"
        /\ Logged("orchestrate", 0) => \A s \in Services : status[s] = "absent"
        /\ \A r \in 1..Len(data) :
                (Logged("write_dataframe", r) /\ data[r] # "None") => r \in stored

\* the sums a string has when it is read as a sequence of <digits><unit>
\* groups, by the grammar of the duration strings
RECURSIVE GroupSums(_)
GroupSums(string) ==
    IF string = <<>> THEN {<<0, 0>>}
    ELSE UNION {
            {Plus(Times(float(SubSeq(string, 1, d)),
                        SECONDS_MAP(SubSeq(string, d + 1, e))), rest) :
                rest \in GroupSums(SubSeq(string, e + 1, Len(string)))} :
            <<d, e>> \in {<<d, e>> \in (1..Len(string)) \X (1..Len(string)) :
                /\ d < e
                /\ \A n \in 1..d : IsDigit(string[n])
                /\ \E u \in 1..Len(UnitAlternation) :
                        UnitAlternation[u] = SubSeq(string, d + 1, e)}}

WellFormed(string) == string # <<>> /\ GroupSums(string) # {}

\* C32 (sum): for a well-formed duration string, time_string_to_seconds
\* returns the sum of value times unit over all groups.
C32_WellFormedSum ==
    (WellFormed(time_string) /\ seconds_returned # <<>>) =>
        GroupSums(time_string) = {seconds_returned[1]}

\* C32 witness: a string of two groups was converted
C32_Witness ==
    /\ time_string = <<"1", "m", "3", "s">>
    /\ seconds_returned = <<<<63, 0>>>>

\* C32: for a well-formed duration string, time_string_to_seconds returns the
\* sum of value times unit over all groups, and a string that is not well
\* formed (digits without a unit, or characters after the groups that are no
\* group) is not accepted by validate_time_string.
C32_DurationParser ==
    /\ C32_WellFormedSum
    /\ (~WellFormed(time_string) /\ validated # <<>>) => validated[1] = FALSE

\* the largest window of one side over the responses of the spec, in
\* microseconds; 0 with no response
LargestWindow(side) ==
    Max({0} \cup {Micro(time_string_to_seconds(observer_responses[n][side]))
                    : n \in 1..Len(observer_responses)})

\* C33: whenever time_to_wait_left() is called, before or after the
\* experiment's timestamps are set and before or after the response variables
\* exist, it returns the largest left_window of the spec's responses in
\* seconds, and 0 when there is none larger.
C33_LeftWaitIsLargestLeftWindow ==
    ttw_left # <<>> => ttw_left[1].value = LargestWindow("left_window")

\* C33 witness: called with no timestamp set and no variable built, and a
\* left window of two minutes
C33_Witness ==
    /\ ttw_left # <<>>
    /\ ttw_left[1].experiment_start = None
    /\ ttw_left[1].variables = 0
    /\ ttw_left[1].value = 120 * MicrosecondsPerSecond

\* C34: called after initialize_variables, time_to_wait_right() does not
\* raise, and returns the largest right_window of the spec's responses, which
\* is not negative.
C34_RightWaitIsLargestRightWindow ==
    ttw_right # <<>> =>
        /\ ttw_right[1].raised = ""
        /\ ttw_right[1].value = LargestWindow("right_window")
        /\ ttw_right[1].value >= 0

\* the sum of the durations of the first n stages
RECURSIVE CumulativeDuration(_)
CumulativeDuration(n) ==
    IF n = 0 THEN 0 ELSE CumulativeDuration(n - 1) + stages[n].duration

\* C35: a tick at run time t returns the users and the spawn rate of the first
\* stage whose cumulative duration exceeds t, and returns nothing only when t
\* is at least the sum of all durations.
C35_TickFollowsCumulativeDuration ==
    ticked # <<>> =>
        LET t == ticked[1].run_time
            due == {n \in 1..Len(stages) : CumulativeDuration(n) > t}
        IN  IF due = {}
            THEN ticked[1].returned = "None"
            ELSE /\ ticked[1].returned = "tuple"
                 /\ ticked[1].users = stages[Min(due)].users
                 /\ ticked[1].spawn_rate = stages[Min(due)].spawn_rate

\* the elements of a list
Range(list) == {list[n] : n \in 1..Len(list)}

\* C36: consolidate_runs(e, v) concatenates exactly the frames written with
\* experiment e and response v, one per run, and returns None when no frame
\* was written with e and v.
C36_ConsolidateExactlyTheRuns ==
    (asked # <<>> /\ asked[1].call = "consolidate_runs") =>
        LET expected == {construct_key(asked[1].experiment_key, r,
                                       asked[1].second) : r \in RunNames}
                            \cap catalog_hdf
        IN  /\ Range(asked[1].result) = expected
            /\ Len(asked[1].result) = Cardinality(expected)
            /\ asked[1].outcome = "None" <=> expected = {}

\* C37: list_keys_for_run(e, r) returns every key written with experiment e
\* and run r, and list_keys_for_experiment(e) returns every key written with
\* experiment e.
C37_ListsHoldEveryKey ==
    /\ (asked # <<>> /\ asked[1].call = "list_keys_for_run") =>
            \A v \in VariableNames :
                construct_key(asked[1].experiment_key, asked[1].second, v)
                        \in catalog_hdf
                    => construct_key(asked[1].experiment_key, asked[1].second, v)
                            \in Range(asked[1].result)
    /\ (asked # <<>> /\ asked[1].call = "list_keys_for_experiment") =>
            \A r \in RunNames, v \in VariableNames :
                construct_key(asked[1].experiment_key, r, v) \in catalog_hdf
                    => construct_key(asked[1].experiment_key, r, v)
                            \in Range(asked[1].result)

\* C37 (experiment): list_keys_for_experiment(e) returns every key written
\* with experiment e.
C37_ExperimentListHoldsEveryKey ==
    (asked # <<>> /\ asked[1].call = "list_keys_for_experiment") =>
        \A r \in RunNames, v \in VariableNames :
            construct_key(asked[1].experiment_key, r, v) \in catalog_hdf
                => construct_key(asked[1].experiment_key, r, v)
                        \in Range(asked[1].result)

\* the numbers of the rows of the tested response that carry the label
RowsLabelled(label_value) ==
    {n \in 1..Len(tested_response.data[tested_treatment]) :
        tested_response.data[tested_treatment][n] = label_value}

\* C38: the first sample handed to the test (the control) holds exactly the
\* rows labelled "NoTreatment" and the second (the experiment) exactly the
\* rows labelled with the treatment's name, both read from the value column:
\* duration for a trace, the metric's name for a metric.
C38_ControlIsNoTreatmentRows ==
    /\ component.kind = "ttest" /\ component.value_column # "" =>
            component.value_column =
                (IF tested_response.response_type = "trace" THEN "duration"
                 ELSE tested_response.metric_name)
    /\ component.kind = "ttest" /\ ttest_ind # <<>> =>
            /\ Range(ttest_ind[1].first) = RowsLabelled("NoTreatment")
            /\ Range(ttest_ind[1].second) = RowsLabelled(tested_treatment)

\* C39: once experiment_end is set, every runtime treatment started no earlier
\* than experiment_start plus the largest left window, ended no earlier than
\* it started, and ended no later than experiment_end.
C39_TreatmentInsideExperiment ==
    (component.kind = "interval" /\ component.experiment_end # None) =>
        \A t \in 1..Len(runtime_treatments) :
            /\ component.experiment_start + LargestWindow("left_window")
                    <= runtime_treatments[t].start
            /\ runtime_treatments[t].start <= runtime_treatments[t].end
            /\ runtime_treatments[t].end <= component.experiment_end

\* C39 witness: a run with a left window of a second and two runtime
\* treatments, the first started right when the window was over and the
\* second ended right at experiment_end
C39_Witness ==
    /\ component.kind = "interval"
    /\ component.experiment_end # None
    /\ Len(runtime_treatments) = 2
    /\ LargestWindow("left_window") = MicrosecondsPerSecond
    /\ runtime_treatments[1].start =
            component.experiment_start + MicrosecondsPerSecond
    /\ runtime_treatments[1].end > runtime_treatments[1].start
    /\ runtime_treatments[2].end = component.experiment_end

\* the calls of the given names, in the order they were made
RECURSIVE CallsOf(_, _)
CallsOf(made, names) ==
    IF made = <<>> THEN <<>>
    ELSE (IF Head(made).name \in names THEN <<Head(made)>> ELSE <<>>)
         \o CallsOf(Tail(made), names)

\* C40: when Engine.run(runs=N) returns, the calls of orchestrate() and
\* teardown() alternate, one of each per iteration; the teardown and the
\* generator stop of an iteration come before the compile-time injects and
\* the orchestrate of the next one; both flags are false.  A runner that was
\* just constructed has treatments with unset start and end.
C40_IterationsDoNotOverlap ==
    /\ (component.kind = "loop" /\ loop_pc = "returned") =>
            /\ CallsOf(calls, {"orchestrate", "teardown"}) =
                    [n \in 1..(2 * component.runs) |->
                        Call(IF n % 2 = 1 THEN "orchestrate" ELSE "teardown",
                             (n - 1) \div 2)]
            /\ CallsOf(calls, {"ExperimentRunner",
                               "execute_compile_time_treatments", "orchestrate",
                               "generator.start", "generator.stop", "teardown"}) =
                    [n \in 1..(6 * component.runs) |->
                        Call(<<"ExperimentRunner",
                               "execute_compile_time_treatments", "orchestrate",
                               "generator.start", "generator.stop",
                               "teardown">>[((n - 1) % 6) + 1],
                             (n - 1) \div 6)]
            /\ ~component.sue_running
            /\ ~component.loadgen_running
    /\ (component.kind = "loop"
            /\ loop_pc = "execute_compile_time_treatments") =>
            \A t \in 1..Len(engine_runner.treatments) :
                /\ engine_runner.treatments[t].start = None
                /\ engine_runner.treatments[t].end = None

\* C40 witness: three runs of a spec with a compile-time and a runtime
\* treatment returned, and the runner of the last run holds their timestamps
C40_Witness ==
    /\ component.kind = "loop"
    /\ loop_pc = "returned"
    /\ component.runs = 3
    /\ component.described = <<FALSE, TRUE>>
    /\ engine_runner.treatments[1].end # None
    /\ engine_runner.treatments[2].end # None

====
